---- MODULE Spec2Model ----
(***************************************************************************)
(* Model of the grading harnesses of AlephsIntro:                          *)
(*   src/tests.py              the function runner (TestRunner)            *)
(*   src/ex4/main_tester.py    the battleship runner (TestRunner)          *)
(*   src/ex4/test_helper.py    the deterministic stand-in for 'helper'     *)
(*   src/ex5/run_harness.py    the out-of-process harness (main)           *)
(* Python strings are sequences of one-character strings; Python values    *)
(* are tagged records.                                                     *)
(***************************************************************************)
EXTENDS Integers, Sequences, FiniteSets, TLC

VARIABLES
    actual,        \* compare_values: first argument
    expected,      \* compare_values: second argument
    cmp_done,      \* compare_values has been applied to (actual, expected)
    cmp_result     \* [xy, yx, xx]: compare_values(actual, expected), swapped, and on (actual, actual)

VARIABLES
    th,            \* the globals of module test_helper
    printed,       \* what the stub operation executed last wrote to the output channel
    last,          \* the stub operation executed last: [op, arg, ret, raised]
    rets           \* what get_input returned, call by call, since the cursors were last zeroed

VARIABLES
    runner,        \* which TestRunner the session is: "function" (tests.py) or "battleship" (ex4)
    archive,       \* the names of the modules the extracted submission archive holds
    file,          \* the test file: [readable, tests]
    tests,         \* the list load_test_cases returned
    phase,         \* "idle", "running", "reported", "done", "exited" (the process ended
                   \* early) or "blocked" (a call of a target has not come back)
    cause,         \* why the process ended early ("" while it has not)
    pos,           \* number of specs the loop of run_all_tests has processed
    passed,        \* self.passed
    failed,        \* self.failed
    failures,      \* self.failures
    result,        \* the dict the latest run_single_test returned
    sys_stdout,    \* the object bound to sys.stdout
    sys_stdin,     \* the object bound to sys.stdin
    before,        \* [stdout, stdin] bound when the latest capture_output was entered
    report,        \* the failure report file: [writes, total_failures, no_failures, blocks]
    history        \* per executed spec: the stub as the target found it, and the result

VARIABLES
    zip_file,      \* ex5.zip next to the harness: "present" or "missing"
    temp_dir_path, \* the directory TEMP_DIR_PATH: "present" or "absent"
    old_report,    \* a report file of an earlier run is still on disk
    proc,          \* the external process of the current test
    launched,      \* positions of the tests whose process was started, in order
    reads,         \* positions of the tests whose output file was read, in order
    report_lines   \* report_lines, one entry per processed test

VARIABLES
    actual_content,   \* text read from the output file (line 200)
    expected_content, \* test["expected_output_content"]
    compared,         \* "" before the comparison, then "PASS" or "FAIL"
    html_diff         \* what HtmlDiff.make_table was given and made (line 218)

VARIABLES
    sys_modules,   \* sys.modules: the module object bound to each module name
    steps,         \* what the latest run_single_test did to load and call its target, in order
    stdin_eof,     \* the standard input of the process is at end of file
    exit_status    \* the exit status of the process (-1 while it runs)

cmp_vars == <<actual, expected, cmp_done, cmp_result>>
harness_vars == <<zip_file, temp_dir_path, old_report, proc, launched, reads, report_lines>>
lines_vars == <<actual_content, expected_content, compared, html_diff>>
host_vars == <<sys_modules, steps, stdin_eof, exit_status>>
stub_vars == <<th, printed, last, rets>>
run_vars == <<runner, archive, file, tests, phase, cause, pos, passed, failed, failures,
              result, sys_stdout, sys_stdin, before, report, history>>

vars == <<cmp_vars, stub_vars, run_vars, harness_vars, lines_vars, host_vars>>

(***************************************************************************)
(* Bounds                                                                  *)
(***************************************************************************)
MaxSeqLen == 2
MaxQueue == 2
MaxChoices == 1
MaxStrLen == 3
MaxAlts == 2
MaxTests == 3
MaxTextLen == 4

SeqsUpTo(S, n) == UNION {[1..m -> S] : m \in 0..n}

(***************************************************************************)
(* Python values (src/tests.py: the values compare_values is applied to)   *)
(***************************************************************************)
PyNone == [k |-> "None", v |-> 0, items |-> <<>>]
PyInt(n) == [k |-> "int", v |-> n, items |-> <<>>]
PyBool(n) == [k |-> "bool", v |-> n, items |-> <<>>]
PyText(n) == [k |-> "str", v |-> n, items |-> <<>>]
PyNaN == [k |-> "nan", v |-> 0, items |-> <<>>]
PyList(s) == [k |-> "list", v |-> 0, items |-> s]
PyTuple(s) == [k |-> "tuple", v |-> 0, items |-> s]

\* isinstance(x, (list, tuple))
IsSequence(x) == x.k \in {"list", "tuple"}

IsNumber(x) == x.k \in {"int", "bool"}

\* Python's == on two values of which at most one is a list or tuple and
\* none is None: numbers compare by value across int and bool (1 == True),
\* strings by content, float('nan') equals nothing (itself included), and
\* values of unrelated types are unequal.
PyEq(a, b) ==
    IF a.k = "nan" \/ b.k = "nan" THEN FALSE
    ELSE IF IsNumber(a) /\ IsNumber(b) THEN a.v = b.v
    ELSE IF a.k = "str" /\ b.k = "str" THEN a.v = b.v
    ELSE IF IsSequence(a) /\ IsSequence(b) THEN a.k = b.k /\ a.items = b.items
    ELSE FALSE

RECURSIVE compare_values(_, _)

\* Mutant: the length test dropped; zip() stops at the shorter sequence.
compare_values_no_length(a, e) ==
    IF a.k = "None" /\ e.k = "None" THEN TRUE
    ELSE IF a.k = "None" \/ e.k = "None" THEN FALSE
    ELSE IF IsSequence(a) /\ IsSequence(e) THEN
        \A i \in 1..(IF Len(a.items) < Len(e.items) THEN Len(a.items) ELSE Len(e.items)) :
            compare_values(a.items[i], e.items[i])
    ELSE PyEq(a, e)

\* Mutant: the length test written as 'len(actual) > len(expected)'.
compare_values_longer_only(a, e) ==
    IF a.k = "None" /\ e.k = "None" THEN TRUE
    ELSE IF a.k = "None" \/ e.k = "None" THEN FALSE
    ELSE IF IsSequence(a) /\ IsSequence(e) THEN
        IF Len(a.items) > Len(e.items) THEN FALSE
        ELSE \A i \in 1..Len(a.items) : compare_values(a.items[i], e.items[i])
    ELSE PyEq(a, e)

\* TestRunner.compare_values
compare_values(a, e) ==
    IF a.k = "None" /\ e.k = "None" THEN TRUE
    ELSE IF a.k = "None" \/ e.k = "None" THEN FALSE
    ELSE IF IsSequence(a) /\ IsSequence(e) THEN
        IF Len(a.items) # Len(e.items) THEN FALSE
        ELSE \A i \in 1..Len(a.items) : compare_values(a.items[i], e.items[i])
    ELSE PyEq(a, e)

\* The values compare_values is exercised on: scalars, flat lists and tuples
\* of scalars, and lists and tuples holding one short list or tuple.
Atoms == {PyNone, PyInt(1), PyInt(2), PyBool(1), PyText(1), PyNaN}
FlatSequences == {PyList(s) : s \in SeqsUpTo(Atoms, MaxSeqLen)}
                 \cup {PyTuple(s) : s \in SeqsUpTo(Atoms, MaxSeqLen)}
ShortSequences == {x \in FlatSequences : Len(x.items) <= 1}
NestedSequences == {PyList(<<x>>) : x \in ShortSequences}
                   \cup {PyTuple(<<x>>) : x \in ShortSequences}
Values == Atoms \cup FlatSequences \cup NestedSequences

RECURSIVE HasNaN(_)
HasNaN(x) ==
    \/ x.k = "nan"
    \/ IsSequence(x) /\ \E i \in 1..Len(x.items) : HasNaN(x.items[i])


(***************************************************************************)
(* src/ex4/test_helper.py: the deterministic stand-in for module 'helper'  *)
(***************************************************************************)
WATER == 0
SHIP == 1
HIT_WATER == 2
HIT_SHIP == 3

NL == "\n"

\* What a stub operation hands back: a string, a cell or nothing.
RetStr(s) == [t |-> "str", s |-> s, c |-> <<>>]
RetCell(c) == [t |-> "cell", s |-> <<>>, c |-> c]
RetNone == [t |-> "None", s |-> <<>>, c |-> <<>>]

\* The outcome of one stub operation: the module globals and the output
\* after it, the value returned, and the error raised ("" when none).
Outcome(t, o, r, e) == [th |-> t, out |-> o, ret |-> r, raised |-> e]

\* The module as first imported (lines 5-22).
ModuleState ==
    [NUM_ROWS |-> 5, NUM_COLUMNS |-> 5, SHIP_SIZES |-> <<3, 2>>,
     INPUT_QUEUE |-> <<>>, _input_index |-> 0,
     SHIP_PLACEMENTS |-> <<>>, _ship_index |-> 0,
     TORPEDO_SEQUENCE |-> <<>>, _torpedo_index |-> 0]

\* Mutant: reset forgets the input cursor.
reset_keeps_input(t) ==
    [t EXCEPT !._ship_index = 0, !._torpedo_index = 0]

reset(t) ==
    [t EXCEPT !._input_index = 0, !._ship_index = 0, !._torpedo_index = 0]

\* Mutant: the cursor is advanced also when the queue is exhausted.
get_input_always_advances(t, out, msg) ==
    IF t._input_index >= Len(t.INPUT_QUEUE)
    THEN Outcome([t EXCEPT !._input_index = @ + 1], out \o msg \o <<NL>>, RetStr(<<>>), "")
    ELSE Outcome([t EXCEPT !._input_index = @ + 1],
                 out \o msg \o t.INPUT_QUEUE[t._input_index + 1] \o <<NL>>,
                 RetStr(t.INPUT_QUEUE[t._input_index + 1]), "")

\* Mutant: the cursor is advanced by the wrong step.
get_input_skips(t, out, msg) ==
    IF t._input_index >= Len(t.INPUT_QUEUE)
    THEN Outcome(t, out \o msg \o <<NL>>, RetStr(<<>>), "")
    ELSE Outcome([t EXCEPT !._input_index = Len(t.INPUT_QUEUE)],
                 out \o msg \o t.INPUT_QUEUE[t._input_index + 1] \o <<NL>>,
                 RetStr(t.INPUT_QUEUE[t._input_index + 1]), "")

\* Mutant: the entry that is returned is not echoed.
get_input_no_echo(t, out, msg) ==
    IF t._input_index >= Len(t.INPUT_QUEUE)
    THEN Outcome(t, out \o msg \o <<NL>>, RetStr(<<>>), "")
    ELSE Outcome([t EXCEPT !._input_index = @ + 1], out \o msg,
                 RetStr(t.INPUT_QUEUE[t._input_index + 1]), "")

\* get_input(msg): print(msg, end=""), then the fallback (print(), return "")
\* or the next entry (advance, print(val), return val).
get_input(t, out, msg) ==
    IF t._input_index >= Len(t.INPUT_QUEUE)
    THEN Outcome(t, out \o msg \o <<NL>>, RetStr(<<>>), "")
    ELSE Outcome([t EXCEPT !._input_index = @ + 1],
                 out \o msg \o t.INPUT_QUEUE[t._input_index + 1] \o <<NL>>,
                 RetStr(t.INPUT_QUEUE[t._input_index + 1]), "")

show_msg(t, out, msg) == Outcome(t, out \o msg \o <<NL>>, RetNone, "")

row_to_str(r) ==
    [i \in 1..Len(r) |->
        IF r[i] = SHIP THEN "x"
        ELSE IF r[i] = HIT_SHIP THEN "*"
        ELSE IF r[i] = HIT_WATER THEN "o"
        ELSE "."]

RECURSIVE PrintRows(_, _, _, _)
\* the loop of show_board over rows i..n of two boards (lines 68-71)
PrintRows(rows1, rows2, i, n) ==
    IF i > n THEN <<>>
    ELSE (IF i <= Len(rows1) THEN rows1[i] ELSE <<>>) \o <<" ", "|", " ">>
         \o (IF i <= Len(rows2) THEN rows2[i] ELSE <<>>) \o <<NL>>
         \o PrintRows(rows1, rows2, i + 1, n)

RECURSIVE PrintBoard(_, _)
\* the loop of show_board over the rows of one board (lines 63-64)
PrintBoard(board, i) ==
    IF i > Len(board) THEN <<>>
    ELSE row_to_str(board[i]) \o <<NL>> \o PrintBoard(board, i + 1)

\* show_board(board1, board2); board2 = <<"None">> stands for the default None
show_board(t, out, board1, board2) ==
    LET body ==
            IF board2 = <<"None">> THEN PrintBoard(board1, 1)
            ELSE LET rows1 == [i \in 1..Len(board1) |-> row_to_str(board1[i])]
                     rows2 == [i \in 1..Len(board2) |-> row_to_str(board2[i])]
                     n == IF Len(rows1) > Len(rows2) THEN Len(rows1) ELSE Len(rows2)
                 IN PrintRows(rows1, rows2, 1, n)
    IN Outcome(t, out \o <<"===SHOW_BOARD===", NL>> \o body \o <<"===END_SHOW_BOARD===", NL>>,
               RetNone, "")

\* random_cell(cells): cells[0]
random_cell(t, out, cells) ==
    IF cells = <<>> THEN Outcome(t, out, RetNone, "IndexError")
    ELSE Outcome(t, out, RetCell(cells[1]), "")

\* Mutant: choose_ship_location advances the torpedo cursor.
choose_ship_location_wrong_cursor(t, out, locations) ==
    IF t.SHIP_PLACEMENTS # <<>> /\ t._ship_index < Len(t.SHIP_PLACEMENTS)
    THEN Outcome([t EXCEPT !._torpedo_index = @ + 1], out,
                 RetCell(t.SHIP_PLACEMENTS[t._ship_index + 1]), "")
    ELSE IF locations = <<>> THEN Outcome(t, out, RetNone, "IndexError")
    ELSE Outcome(t, out, RetCell(locations[1]), "")

\* Mutant: a scripted cell is returned only when it is among the candidates.
choose_ship_location_checks_candidates(t, out, locations) ==
    IF /\ t.SHIP_PLACEMENTS # <<>> /\ t._ship_index < Len(t.SHIP_PLACEMENTS)
       /\ \E i \in 1..Len(locations) : locations[i] = t.SHIP_PLACEMENTS[t._ship_index + 1]
    THEN Outcome([t EXCEPT !._ship_index = @ + 1], out,
                 RetCell(t.SHIP_PLACEMENTS[t._ship_index + 1]), "")
    ELSE IF locations = <<>> THEN Outcome(t, out, RetNone, "IndexError")
    ELSE Outcome(t, out, RetCell(locations[1]), "")

choose_ship_location(t, out, locations) ==
    IF t.SHIP_PLACEMENTS # <<>> /\ t._ship_index < Len(t.SHIP_PLACEMENTS)
    THEN Outcome([t EXCEPT !._ship_index = @ + 1], out,
                 RetCell(t.SHIP_PLACEMENTS[t._ship_index + 1]), "")
    ELSE IF locations = <<>> THEN Outcome(t, out, RetNone, "IndexError")
    ELSE Outcome(t, out, RetCell(locations[1]), "")

choose_torpedo_target(t, out, locations) ==
    IF t.TORPEDO_SEQUENCE # <<>> /\ t._torpedo_index < Len(t.TORPEDO_SEQUENCE)
    THEN Outcome([t EXCEPT !._torpedo_index = @ + 1], out,
                 RetCell(t.TORPEDO_SEQUENCE[t._torpedo_index + 1]), "")
    ELSE IF locations = <<>> THEN Outcome(t, out, RetNone, "IndexError")
    ELSE Outcome(t, out, RetCell(locations[1]), "")

seed(t, out) == Outcome(t, out, RetNone, "")

(***************************************************************************)
(* Text: str.strip(), str.upper(), ord(), int()                            *)
(***************************************************************************)
IsSpace(ch) == ch \in {" ", "\n", "\t"}

RECURSIVE lstrip(_)
lstrip(s) == IF s # <<>> /\ IsSpace(Head(s)) THEN lstrip(Tail(s)) ELSE s

RECURSIVE rstrip(_)
rstrip(s) ==
    IF s # <<>> /\ IsSpace(s[Len(s)]) THEN rstrip(SubSeq(s, 1, Len(s) - 1)) ELSE s

\* Mutant: only the trailing whitespace is removed.
strip_right_only(s) == rstrip(s)

\* Mutant: nothing is removed.
strip_nothing(s) == s

\* str.strip()
strip(s) == rstrip(lstrip(s))

\* str.upper(), one character
UpperChar(ch) ==
    IF ch = "a" THEN "A" ELSE IF ch = "b" THEN "B" ELSE IF ch = "c" THEN "C" ELSE ch

upper(s) == [i \in 1..Len(s) |-> UpperChar(s[i])]

IsDigit(ch) == ch \in {"0", "1", "2", "3"}

DigitValue(ch) == IF ch = "0" THEN 0 ELSE IF ch = "1" THEN 1 ELSE IF ch = "2" THEN 2 ELSE 3

\* ord(ch) - ord('A') for the characters of the model
OrdMinusA(ch) ==
    IF ch = "A" THEN 0 ELSE IF ch = "B" THEN 1 ELSE IF ch = "C" THEN 2
    ELSE IF IsDigit(ch) THEN DigitValue(ch) - 17
    ELSE 0 - 33

RECURSIVE DigitsValue(_, _)
DigitsValue(s, acc) ==
    IF s = <<>> THEN acc ELSE DigitsValue(Tail(s), 10 * acc + DigitValue(Head(s)))

\* int(s): surrounding whitespace is ignored; anything but digits raises
IntParse(s) ==
    LET d == strip(s) IN
    IF d = <<>> \/ \E i \in 1..Len(d) : ~IsDigit(d[i])
    THEN [value |-> 0, raised |-> "ValueError"]
    ELSE [value |-> DigitsValue(d, 0), raised |-> ""]

(***************************************************************************)
(* src/ex4/main_tester.py: configuring the stub from a test spec           *)
(***************************************************************************)
\* An entry of computer_ship_placements / computer_torpedo_sequence: a cell
\* name ("B2") or a [row, column] pair.
RawName(s) == [t |-> "str", s |-> s, rc |-> <<>>]
RawPair(rc) == [t |-> "list", s |-> <<>>, rc |-> rc]

\* TestRunner.cell_name_to_loc
cell_name_to_loc(name) ==
    LET n == upper(strip(name)) IN
    IF n = <<>> THEN [loc |-> <<>>, raised |-> "IndexError"]
    ELSE LET row == IntParse(Tail(n)) IN
         IF row.raised # "" THEN [loc |-> <<>>, raised |-> row.raised]
         ELSE [loc |-> <<row.value - 1, OrdMinusA(Head(n))>>, raised |-> ""]

\* One element of the comprehensions of lines 72-75 and 80-83.
ToLoc(x) ==
    IF x.t = "str" THEN cell_name_to_loc(x.s) ELSE [loc |-> x.rc, raised |-> ""]

\* The comprehension: the converted list, or the first error raised.
ToLocs(raw) ==
    LET conv == [i \in 1..Len(raw) |-> ToLoc(raw[i])] IN
    IF \E i \in 1..Len(raw) : conv[i].raised # ""
    THEN [locs |-> <<>>,
          raised |-> conv[CHOOSE i \in 1..Len(raw) :
                              /\ conv[i].raised # ""
                              /\ \A j \in 1..(i - 1) : conv[j].raised = ""].raised]
    ELSE [locs |-> [i \in 1..Len(raw) |-> conv[i].loc], raised |-> ""]

\* spec.get(key, default) on a spec that lists its keys in spec.keys
Get(spec, key, default) == IF key \in spec.keys THEN spec[key] ELSE default

\* Mutant: the queues are replaced but the cursors are left where they were.
prepare_test_helper_no_rewind(t, spec) ==
    [th |-> [t EXCEPT !.NUM_ROWS = spec.rows, !.NUM_COLUMNS = spec.columns,
                      !.SHIP_SIZES = spec.ship_sizes,
                      !.INPUT_QUEUE = Get(spec, "input_text", <<>>),
                      !.SHIP_PLACEMENTS = ToLocs(Get(spec, "computer_ship_placements", <<>>)).locs,
                      !.TORPEDO_SEQUENCE = ToLocs(Get(spec, "computer_torpedo_sequence", <<>>)).locs],
     raised |-> ""]

\* Mutant: a queue the spec omits keeps the previous test's entries.
prepare_test_helper_keeps_queue(t, spec) ==
    [th |-> reset([t EXCEPT !.NUM_ROWS = spec.rows, !.NUM_COLUMNS = spec.columns,
                      !.SHIP_SIZES = spec.ship_sizes,
                      !.INPUT_QUEUE = Get(spec, "input_text", t.INPUT_QUEUE),
                      !.SHIP_PLACEMENTS = ToLocs(Get(spec, "computer_ship_placements", <<>>)).locs,
                      !.TORPEDO_SEQUENCE = ToLocs(Get(spec, "computer_torpedo_sequence", <<>>)).locs]),
     raised |-> ""]

\* TestRunner.prepare_test_helper: the assignments in order; a missing
\* required key or a malformed cell name raises and leaves the module as the
\* assignments before it made it.
prepare_test_helper(t, spec) ==
    IF "rows" \notin spec.keys THEN [th |-> t, raised |-> "KeyError"]
    ELSE LET t1 == [t EXCEPT !.NUM_ROWS = spec.rows] IN
    IF "columns" \notin spec.keys THEN [th |-> t1, raised |-> "KeyError"]
    ELSE LET t2 == [t1 EXCEPT !.NUM_COLUMNS = spec.columns] IN
    IF "ship_sizes" \notin spec.keys THEN [th |-> t2, raised |-> "KeyError"]
    ELSE LET t3 == [t2 EXCEPT !.SHIP_SIZES = spec.ship_sizes,
                              !.INPUT_QUEUE = Get(spec, "input_text", <<>>),
                              !._input_index = 0]
             sp == ToLocs(Get(spec, "computer_ship_placements", <<>>))
         IN
    IF sp.raised # "" THEN [th |-> t3, raised |-> sp.raised]
    ELSE LET t4 == [t3 EXCEPT !.SHIP_PLACEMENTS = sp.locs, !._ship_index = 0]
             ts == ToLocs(Get(spec, "computer_torpedo_sequence", <<>>))
         IN
    IF ts.raised # "" THEN [th |-> t4, raised |-> ts.raised]
    ELSE [th |-> reset([t4 EXCEPT !.TORPEDO_SEQUENCE = ts.locs, !._torpedo_index = 0]),
          raised |-> ""]

\* No external process: none was started yet, or the last one was collected.
NoProcess == [state |-> "none", returncode |-> 0, stderr |-> <<>>, wrote |-> FALSE, output |-> <<>>]

HarnessIdle ==
    /\ zip_file = "missing"
    /\ temp_dir_path = "absent"
    /\ old_report = FALSE
    /\ proc = NoProcess
    /\ launched = <<>>
    /\ reads = <<>>
    /\ report_lines = <<>>

\* HtmlDiff.make_table was not called
NoDiff == [made |-> FALSE, fromlines |-> <<>>, tolines |-> <<>>, opcodes |-> <<>>, rows |-> <<>>]

LinesIdle ==
    /\ actual_content = <<>>
    /\ expected_content = <<>>
    /\ compared = ""
    /\ html_diff = NoDiff

\* The names sys.modules is looked up under.
ModuleNames == {"helper", "test_helper", "battleship", "ex3", "no_such_module"}

\* No module object is bound to the name.
Unbound == [file |-> "", loaded_by |-> 0, ran |-> <<>>]

\* The module object made by executing file `name` while spec number k is run;
\* `ran` lists the specs whose target was called in it since.
Loaded(name, k) == [file |-> name, loaded_by |-> k, ran |-> <<>>]

\* sys.modules holds none of the names when the runner starts.
NoModules == [n \in ModuleNames |-> Unbound]

HostIdle ==
    /\ sys_modules = NoModules
    /\ steps = <<>>
    /\ stdin_eof = FALSE
    /\ exit_status = -1

CmpIdle ==
    /\ actual = PyNone
    /\ expected = PyNone
    /\ cmp_done = FALSE
    /\ cmp_result = [xy |-> FALSE, yx |-> FALSE, xx |-> FALSE]


(***************************************************************************)
(* The process-wide channels, and what a session starts from               *)
(***************************************************************************)
Console == [obj |-> "console", of |-> 0]
Keyboard == [obj |-> "keyboard", of |-> 0]
NoStream == [obj |-> "None", of |-> 0]
\* the StringIO created while spec number k is run
StringIO(kind, k) == [obj |-> kind, of |-> k]

TextNone == [t |-> "None", s |-> <<>>]
Text(s) == [t |-> "str", s |-> s]

\* expected_output: one string, or a list of acceptable strings
ExpStr(s) == [t |-> "str", s |-> s, alts |-> <<>>]
ExpList(a) == [t |-> "list", s |-> <<>>, alts |-> a]

\* input_text: None, a string, a list of strings, or another JSON value
InNone == [t |-> "None", s |-> <<>>]
InStr(s) == [t |-> "str", s |-> s]
InList(l) == [t |-> "list", s |-> l]
InNumber == [t |-> "int", s |-> <<>>]

\* What the callable a spec names does when called: print `out`, then
\* return `ret`, raise an Exception, or raise SystemExit (sys.exit()).
Returns(out, ret) == [kind |-> "returns", out |-> out, ret |-> ret]
Raises(out) == [kind |-> "raises", out |-> out, ret |-> PyNone]
Exits(out) == [kind |-> "exits", out |-> out, ret |-> PyNone]
\* print `out`, then never come back (a loop without end)
Loops(out) == [kind |-> "loops", out |-> out, ret |-> PyNone]
\* the module has no attribute of that name
NoFunction == [kind |-> "absent", out |-> <<>>, ret |-> PyNone]

NoResult ==
    [test_name |-> "", passed |-> FALSE, error |-> "None", actual_return |-> PyNone,
     actual_output |-> TextNone, expected_return |-> PyNone, expected_output |-> ExpStr(<<>>),
     input_text |-> InNone, traceback |-> FALSE]

NoReport == [writes |-> 0, total_failures |-> 0, no_failures |-> FALSE, blocks |-> <<>>]

RunIdle ==
    /\ runner = "none"
    /\ archive = {}
    /\ file = [readable |-> FALSE, tests |-> <<>>]
    /\ tests = <<>>
    /\ phase = "idle"
    /\ cause = ""
    /\ pos = 0
    /\ passed = 0
    /\ failed = 0
    /\ failures = <<>>
    /\ result = NoResult
    /\ sys_stdout = Console
    /\ sys_stdin = Keyboard
    /\ before = [stdout |-> Console, stdin |-> Keyboard]
    /\ report = NoReport
    /\ history = <<>>

(***************************************************************************)
(* src/tests.py: the function runner                                       *)
(***************************************************************************)
\* TestRunner.import_function: the callable, or the ImportError raised
import_function(modules, module_name, function) ==
    IF module_name \notin modules THEN [func |-> NoFunction, raised |-> "ImportError"]
    ELSE IF function.kind = "absent" THEN [func |-> NoFunction, raised |-> "ImportError"]
    ELSE [func |-> function, raised |-> ""]

Captured(out, inp, raised, ret, text) ==
    [stdout |-> out, stdin |-> inp, raised |-> raised, return_value |-> ret,
     printed_output |-> text]

\* Mutant: the channels are restored only when the target returns.
capture_output_no_finally(func, input_text, stdout, stdin, k) ==
    IF input_text.t \notin {"None", "str", "list"}
    THEN Captured(StringIO("stdout buffer", k), stdin, "TypeError", PyNone, <<>>)
    ELSE IF func.kind = "returns"
    THEN Captured(stdout, stdin, "", func.ret, func.out)
    ELSE Captured(StringIO("stdout buffer", k),
                  IF input_text.t = "None" THEN stdin ELSE StringIO("stdin script", k),
                  IF func.kind = "raises" THEN "Exception"
                  ELSE IF func.kind = "loops" THEN "Blocked" ELSE "SystemExit", PyNone, <<>>)

\* Mutant: what the target printed is handed back when it raises.
capture_output_keeps_output(func, input_text, stdout, stdin, k) ==
    IF input_text.t \notin {"None", "str", "list"}
    THEN Captured(StringIO("stdout buffer", k), stdin, "TypeError", PyNone, <<>>)
    ELSE LET old_stdin == IF input_text.t = "None" THEN NoStream ELSE stdin
             during == IF input_text.t = "None" THEN stdin ELSE StringIO("stdin script", k)
             after == IF old_stdin # NoStream THEN old_stdin ELSE during
         IN IF func.kind \in {"returns", "raises"}
            THEN Captured(stdout, after, "", func.ret, func.out)
            ELSE IF func.kind = "loops"
            THEN Captured(StringIO("stdout buffer", k), during, "Blocked", PyNone, <<>>)
            ELSE Captured(stdout, after, "SystemExit", PyNone, <<>>)

\* TestRunner.capture_output (tests.py). sys.stdout is rebound on line 92;
\* StringIO(input_text) on line 99 raises TypeError for anything but a string,
\* before the try block is entered; the finally clause restores sys.stdout,
\* and sys.stdin when the saved old_stdin is not None.  The call on line 102
\* has no time limit: while the target does not come back ("Blocked") the
\* channels stay rebound.
capture_output(func, input_text, stdout, stdin, k) ==
    IF input_text.t \notin {"None", "str", "list"}
    THEN Captured(StringIO("stdout buffer", k), stdin, "TypeError", PyNone, <<>>)
    ELSE LET old_stdin == IF input_text.t = "None" THEN NoStream ELSE stdin
             during == IF input_text.t = "None" THEN stdin ELSE StringIO("stdin script", k)
             after == IF old_stdin # NoStream THEN old_stdin ELSE during
         IN IF func.kind = "returns" THEN Captured(stdout, after, "", func.ret, func.out)
            ELSE IF func.kind = "raises" THEN Captured(stdout, after, "Exception", PyNone, <<>>)
            ELSE IF func.kind = "loops"
            THEN Captured(StringIO("stdout buffer", k), during, "Blocked", PyNone, <<>>)
            ELSE Captured(stdout, after, "SystemExit", PyNone, <<>>)

\* Mutant: the output is compared without trimming the expected text.
output_matches_untrimmed_expected(actual_output, expected_output) ==
    IF expected_output.t = "list"
    THEN \E i \in 1..Len(expected_output.alts) :
             strip(actual_output) = strip(expected_output.alts[i])
    ELSE strip(actual_output) = expected_output.s

RECURSIVE any_expected(_, _, _)
\* lines 155-156: the loop over the members, output_match being carried on
any_expected(actual_output, alts, output_match) ==
    IF alts = <<>> THEN output_match
    ELSE any_expected(actual_output, Tail(alts),
                      (strip(actual_output) = strip(Head(alts))) \/ output_match)

\* Mutant: each member overwrites the match of the members before it.
output_matches_last_only(actual_output, expected_output) ==
    IF expected_output.t = "list"
    THEN /\ expected_output.alts # <<>>
         /\ strip(actual_output) = strip(expected_output.alts[Len(expected_output.alts)])
    ELSE strip(actual_output) = strip(expected_output.s)

\* lines 153-158 of run_single_test
output_matches(actual_output, expected_output) ==
    IF expected_output.t = "list"
    THEN any_expected(actual_output, expected_output.alts, FALSE)
    ELSE strip(actual_output) = strip(expected_output.s)

\* What run_single_test leaves behind: the result dict, the channels, and
\* the BaseException that escaped it ("" when it returned).
Ran(r, out, inp, raised) == [result |-> r, stdout |-> out, stdin |-> inp, raised |-> raised]

\* Mutant: a matching return value is enough to pass.
run_single_test_ignores_output(modules, test_case, stdout, stdin, k) ==
    LET f == import_function(modules, test_case.module, test_case.function)
        c == capture_output(f.func, Get(test_case, "input_text", InNone), stdout, stdin, k)
        ok == f.raised = "" /\ c.raised = ""
              /\ compare_values(c.return_value, Get(test_case, "expected_return", PyNone))
    IN Ran([NoResult EXCEPT !.passed = ok, !.error = IF ok THEN "None" ELSE "Exception: ...",
                            !.actual_output = IF f.raised = "" /\ c.raised = ""
                                              THEN Text(c.printed_output) ELSE TextNone,
                            !.expected_output = Get(test_case, "expected_output", ExpStr(<<>>))],
           IF f.raised = "" THEN c.stdout ELSE stdout,
           IF f.raised = "" THEN c.stdin ELSE stdin,
           IF f.raised = "" /\ c.raised \in {"SystemExit", "Blocked"} THEN c.raised ELSE "")

\* Mutant: the output mismatch is recorded before the return mismatch.
run_single_test_output_first(modules, test_case, stdout, stdin, k) ==
    LET input_text == Get(test_case, "input_text", InNone)
        expected_return == Get(test_case, "expected_return", PyNone)
        expected_output == Get(test_case, "expected_output", ExpStr(<<>>))
        r0 == [test_name |-> Get(test_case, "test_name", "Unnamed Test"),
               passed |-> FALSE, error |-> "None", actual_return |-> PyNone,
               actual_output |-> TextNone, expected_return |-> expected_return,
               expected_output |-> expected_output, input_text |-> input_text,
               traceback |-> FALSE]
        f == import_function(modules, test_case.module, test_case.function)
    IN
    IF f.raised # ""
    THEN Ran([r0 EXCEPT !.error = "Exception: ...", !.traceback = TRUE], stdout, stdin, "")
    ELSE LET c == capture_output(f.func, input_text, stdout, stdin, k) IN
    IF c.raised \in {"SystemExit", "Blocked"} THEN Ran(r0, c.stdout, c.stdin, c.raised)
    ELSE IF c.raised # ""
    THEN Ran([r0 EXCEPT !.error = "Exception: ...", !.traceback = TRUE], c.stdout, c.stdin, "")
    ELSE LET return_match == compare_values(c.return_value, expected_return)
             output_match == output_matches(c.printed_output, expected_output)
         IN Ran([r0 EXCEPT !.actual_return = c.return_value,
                           !.actual_output = Text(c.printed_output),
                           !.passed = return_match /\ output_match,
                           !.error = IF ~output_match THEN "Output mismatch"
                                     ELSE IF ~return_match THEN "Return value mismatch"
                                     ELSE "None"],
                c.stdout, c.stdin, "")

\* TestRunner.run_single_test (tests.py)
run_single_test(modules, test_case, stdout, stdin, k) ==
    LET input_text == Get(test_case, "input_text", InNone)
        expected_return == Get(test_case, "expected_return", PyNone)
        expected_output == Get(test_case, "expected_output", ExpStr(<<>>))
        r0 == [test_name |-> Get(test_case, "test_name", "Unnamed Test"),
               passed |-> FALSE, error |-> "None", actual_return |-> PyNone,
               actual_output |-> TextNone, expected_return |-> expected_return,
               expected_output |-> expected_output, input_text |-> input_text,
               traceback |-> FALSE]
        f == import_function(modules, test_case.module, test_case.function)
    IN
    IF f.raised # ""
    THEN Ran([r0 EXCEPT !.error = "Exception: ...", !.traceback = TRUE], stdout, stdin, "")
    ELSE LET c == capture_output(f.func, input_text, stdout, stdin, k) IN
    IF c.raised \in {"SystemExit", "Blocked"} THEN Ran(r0, c.stdout, c.stdin, c.raised)
    ELSE IF c.raised # ""
    THEN Ran([r0 EXCEPT !.error = "Exception: ...", !.traceback = TRUE], c.stdout, c.stdin, "")
    ELSE LET return_match == compare_values(c.return_value, expected_return)
             output_match == output_matches(c.printed_output, expected_output)
         IN Ran([r0 EXCEPT !.actual_return = c.return_value,
                           !.actual_output = Text(c.printed_output),
                           !.passed = return_match /\ output_match,
                           !.error = IF ~return_match THEN "Return value mismatch"
                                     ELSE IF ~output_match THEN "Output mismatch"
                                     ELSE "None"],
                c.stdout, c.stdin, "")

(***************************************************************************)
(* src/ex4/main_tester.py: the battleship runner                           *)
(***************************************************************************)
\* One step of a submission's function: a call into module 'helper', or a
\* print of its own.
CallGetInput(msg) == [op |-> "get_input", text |-> msg, locations |-> <<>>]
CallShowMsg(msg) == [op |-> "show_msg", text |-> msg, locations |-> <<>>]
CallChooseShip(l) == [op |-> "choose_ship_location", text |-> <<>>, locations |-> l]
CallChooseTorpedo(l) == [op |-> "choose_torpedo_target", text |-> <<>>, locations |-> l]
\* sys.stdout.write(s)
WriteText(s) == [op |-> "write", text |-> s, locations |-> <<>>]
\* print(x) of the value the latest helper call returned
PrintLast == [op |-> "print_last", text |-> <<>>, locations |-> <<>>]

\* A function of battleship.py: the steps it takes, and how it ends.
Program(kind, script) == [kind |-> kind, script |-> script]
NoProgram == [kind |-> "absent", script |-> <<>>]

\* str(x) of a value a helper call returned
Render(ret) ==
    IF ret.t = "str" THEN ret.s
    ELSE IF ret.t = "cell" THEN <<"(", ToString(ret.c[1]), ",", " ", ToString(ret.c[2]), ")">>
    ELSE <<"None">>

Step(t, out, ret, step) ==
    IF step.op = "get_input" THEN get_input(t, out, step.text)
    ELSE IF step.op = "show_msg" THEN show_msg(t, out, step.text)
    ELSE IF step.op = "choose_ship_location" THEN choose_ship_location(t, out, step.locations)
    ELSE IF step.op = "choose_torpedo_target" THEN choose_torpedo_target(t, out, step.locations)
    ELSE IF step.op = "write" THEN Outcome(t, out \o step.text, ret, "")
    ELSE Outcome(t, out \o Render(ret) \o <<NL>>, ret, "")

RECURSIVE Execute(_, _, _)
\* The steps of a script from step i on, o being the outcome of the steps
\* before; an error raised by a helper call ends the script.
Execute(script, i, o) ==
    IF o.raised # "" \/ i > Len(script) THEN o
    ELSE Execute(script, i + 1, Step(o.th, o.out, o.ret, script[i]))

\* How a call ends once its script has run with outcome o.
Ending(kind, o) ==
    [th |-> o.th, out |-> o.out,
     raised |-> IF o.raised # "" \/ kind = "raises" THEN "Exception"
                ELSE IF kind = "exits" THEN "SystemExit"
                ELSE IF kind = "loops" THEN "Blocked"
                ELSE ""]

\* Calling the function: its script, then its way of ending.
Invoke(func, t) == Ending(func.kind, Execute(func.script, 1, Outcome(t, <<>>, RetNone, "")))

\* TestRunner.import_battleship_with_test_helper: the stub as configured, and
\* what was raised (SystemExit when test_helper cannot be imported).
import_battleship_with_test_helper(modules, t, spec) ==
    IF "test_helper" \notin modules THEN [th |-> t, raised |-> "SystemExit"]
    ELSE [th |-> prepare_test_helper(t, spec).th,
          raised |-> IF prepare_test_helper(t, spec).raised # "" \/ "battleship" \notin modules
                     THEN "Exception" ELSE ""]

\* TestRunner.capture_output (main_tester.py): sys.stdout is rebound for the
\* call and restored by the finally clause; the call on line 122 has no time
\* limit, and while it does not come back sys.stdout stays rebound.
CapturedCall(o, stdout, k) ==
    [th |-> o.th,
     stdout |-> IF o.raised = "Blocked" THEN StringIO("stdout buffer", k) ELSE stdout,
     raised |-> o.raised,
     out |-> IF o.raised = "" THEN o.out ELSE <<>>]

battleship_capture_output(func, t, stdout, k) == CapturedCall(Invoke(func, t), stdout, k)

BattleshipRan(r, t, out, raised, start) ==
    [result |-> r, th |-> t, stdout |-> out, stdin |-> Keyboard, raised |-> raised,
     start |-> start]

\* the target was never called
NotStarted == [called |-> FALSE, th |-> ModuleState]
StartedWith(t) == [called |-> TRUE, th |-> t]

\* The result dict as run_single_test builds it first (lines 131-141).
InitialResult(spec) ==
    [test_name |-> spec.test_name, passed |-> FALSE, error |-> "None",
     expected_output |-> Get(spec, "expected_output", <<>>),
     actual_output |-> <<>>,
     input_text |-> Get(spec, "input_text", <<>>),
     computer_ship_placements |-> Get(spec, "computer_ship_placements", <<>>),
     computer_torpedo_sequence |-> Get(spec, "computer_torpedo_sequence", <<>>),
     traceback |-> FALSE]

\* The result dict as the except clause leaves it (lines 161-163).
ExceptionResult(spec) ==
    [InitialResult(spec) EXCEPT !.error = "Exception", !.traceback = TRUE]

\* Lines 151-159: the comparison of the trimmed texts.
Compared(spec, actual_text, expected_text) ==
    [InitialResult(spec) EXCEPT !.actual_output = actual_text,
                                !.passed = (actual_text = expected_text),
                                !.error = IF actual_text = expected_text
                                          THEN "None" ELSE "Output mismatch"]

\* Lines 149-165, c being what capture_output left for the target started
\* with the stub in state t0.
AfterCall(spec, t0, c) ==
    IF c.raised \in {"SystemExit", "Blocked"}
    THEN BattleshipRan(InitialResult(spec), c.th, c.stdout, c.raised, StartedWith(t0))
    ELSE IF c.raised # ""
    THEN BattleshipRan(ExceptionResult(spec), c.th, c.stdout, "", StartedWith(t0))
    ELSE BattleshipRan(Compared(spec, strip(c.out), strip(Get(spec, "expected_output", <<>>))),
                       c.th, c.stdout, "", StartedWith(t0))

\* Lines 144-165, b being what import_battleship_with_test_helper left.
AfterImport(spec, stdout, k, b) ==
    IF b.raised = "SystemExit"
    THEN BattleshipRan(InitialResult(spec), b.th, stdout, "SystemExit", NotStarted)
    ELSE IF b.raised # "" \/ "function" \notin spec.keys \/ spec.function.kind = "absent"
    THEN BattleshipRan(ExceptionResult(spec), b.th, stdout, "", NotStarted)
    ELSE AfterCall(spec, b.th, battleship_capture_output(spec.function, b.th, stdout, k))

\* TestRunner.run_single_test (main_tester.py)
battleship_run_single_test(modules, spec, t, stdout, k) ==
    IF "test_name" \notin spec.keys
    THEN BattleshipRan(NoResult, t, stdout, "KeyError", NotStarted)
    ELSE AfterImport(spec, stdout, k, import_battleship_with_test_helper(modules, t, spec))

NoCall == [op |-> "import", arg |-> <<>>, ret |-> RetNone, raised |-> ""]
Call(op, arg, o) == [op |-> op, arg |-> arg, ret |-> o.ret, raised |-> o.raised]

StubIdle ==
    /\ th = ModuleState
    /\ printed = <<>>
    /\ last = NoCall
    /\ rets = <<>>

(***************************************************************************)
(* sys.modules while a target is loaded, resolved and called               *)
(***************************************************************************)
\* One step of run_single_test for spec number k on module `name`, with what
\* sys.modules and the stub held when it was taken.
Event(ev, name, k, cache, t) ==
    [ev |-> ev, module |-> name, test |-> k, helper |-> cache["helper"].file, stub |-> t,
     loaded_by |-> cache[name].loaded_by, stale |-> cache[name].ran]

Imported(cache, events, raised) == [cache |-> cache, steps |-> events, raised |-> raised]

\* importlib.import_module(name): the module object sys.modules holds under
\* the name, else the file of that name on sys.path, executed and cached.
import_module(cache, modules, name, k, t) ==
    IF cache[name] # Unbound THEN Imported(cache, <<>>, "")
    ELSE IF name \in modules
    THEN Imported([cache EXCEPT ![name] = Loaded(name, k)],
                  <<Event("load", name, k, [cache EXCEPT ![name] = Loaded(name, k)], t)>>, "")
    ELSE Imported(cache, <<>>, "ModuleNotFoundError")

\* Lines 147-148 of tests.py, m being what import_module left: getattr
\* resolves the callable, capture_output calls it unless StringIO(input_text)
\* raised first.
FunctionCalled(m, test_case, k, t) ==
    IF m.raised # "" \/ test_case.function.kind = "absent"
    THEN Imported(m.cache, m.steps, "")
    ELSE IF Get(test_case, "input_text", InNone).t \notin {"None", "str", "list"}
    THEN Imported(m.cache, m.steps \o <<Event("resolve", test_case.module, k, m.cache, t)>>, "")
    ELSE Imported([m.cache EXCEPT ![test_case.module].ran = Append(@, k)],
                  m.steps \o <<Event("resolve", test_case.module, k, m.cache, t),
                               Event("invoke", test_case.module, k, m.cache, t)>>, "")

\* What run_single_test (tests.py) does to sys.modules for spec number k.
function_steps(cache, modules, test_case, k, t) ==
    FunctionCalled(import_module(cache, modules, test_case.module, k, t), test_case, k, t)

\* Lines 110 and 144-152 of main_tester.py, m being what the import of
\* battleship left and t the stub as configured: getattr, then the call.
BattleshipCalled(m, events, spec, k, t) ==
    IF m.raised # "" \/ "function" \notin spec.keys \/ spec.function.kind = "absent"
    THEN Imported(m.cache, events \o m.steps, "")
    ELSE Imported([m.cache EXCEPT !["battleship"].ran = Append(@, k)],
                  events \o m.steps \o <<Event("resolve", "battleship", k, m.cache, t),
                                         Event("invoke", "battleship", k, m.cache, t)>>, "")

\* Lines 106-110: `del sys.modules["battleship"]` when it is there, then the import.
FreshBattleship(c, events, modules, spec, k, t) ==
    IF c["battleship"] # Unbound
    THEN BattleshipCalled(import_module([c EXCEPT !["battleship"] = Unbound], modules,
                                        "battleship", k, t),
                          events \o <<Event("discard", "battleship", k, c, t)>>, spec, k, t)
    ELSE BattleshipCalled(import_module(c, modules, "battleship", k, t), events, spec, k, t)

\* Mutant: battleship is imported first, the stub bound and configured after.
Substituted_loads_first(m, modules, p, spec, k, t) ==
    LET r == FreshBattleship(m.cache, m.steps, modules, spec, k, t)
        c == [r.cache EXCEPT !["helper"] = r.cache["test_helper"]]
    IN Imported(c, r.steps \o <<Event("bind", "helper", k, c, t),
                                 Event("configure", "helper", k, c, p.th)>>, "")

\* Lines 100-104: sys.modules["helper"] = test_helper, then prepare_test_helper.
Substituted(m, modules, p, spec, k, t) ==
    IF p.raised # ""
    THEN Imported([m.cache EXCEPT !["helper"] = m.cache["test_helper"]],
                  m.steps \o <<Event("bind", "helper", k,
                                     [m.cache EXCEPT !["helper"] = m.cache["test_helper"]], t)>>,
                  "")
    ELSE FreshBattleship([m.cache EXCEPT !["helper"] = m.cache["test_helper"]],
                         m.steps \o <<Event("bind", "helper", k,
                                            [m.cache EXCEPT !["helper"] = m.cache["test_helper"]],
                                            t),
                                      Event("configure", "helper", k,
                                            [m.cache EXCEPT !["helper"] = m.cache["test_helper"]],
                                            p.th)>>,
                         modules, spec, k, p.th)

\* What run_single_test (main_tester.py) does to sys.modules for spec number
\* k, the stub being in state t when it starts.
battleship_steps(cache, modules, spec, k, t) ==
    IF "test_name" \notin spec.keys \/ "test_helper" \notin modules
    THEN Imported(cache, <<>>, "")
    ELSE Substituted(import_module(cache, modules, "test_helper", k, t), modules,
                     prepare_test_helper(t, spec), spec, k, t)

(***************************************************************************)
(* run_all_tests of both runners, one action per step of the session       *)
(***************************************************************************)
\* The exit status when a BaseException leaves the script: 1 for an uncaught
\* error and for the runner's own sys.exit(1); a sys.exit() of the target
\* gives the status the target names.
ExitCodes(raised, called) == IF raised = "SystemExit" /\ called THEN {0, 1} ELSE {1}

\* The last statement of the script, input(...): it returns once a line is
\* read and the script ends with status 0; at end of file it raises
\* EOFError, which nothing catches.
Prompted == IF stdin_eof THEN 1 ELSE 0

\* What a block of the report shows of a result (format_failure_report of
\* either runner): the error kind, the traceback when the result has one,
\* and the actual output for an "Output mismatch" only.
format_failure_report(r) ==
    [test_name |-> r.test_name, error |-> r.error, traceback |-> r.traceback,
     shows_output |-> r.error = "Output mismatch",
     actual_output |-> IF r.error = "Output mismatch" THEN r.actual_output ELSE TextNone]

\* Mutant: a failed test is counted but its result is not kept.
Outcomes_drops_failure(r) ==
    /\ result' = r.result
    /\ IF r.result.passed
       THEN passed' = passed + 1 /\ UNCHANGED <<failed, failures>>
       ELSE failed' = failed + 1 /\ UNCHANGED <<passed, failures>>

Outcomes(r) ==
    /\ result' = r.result
    /\ IF r.result.passed
       THEN passed' = passed + 1 /\ UNCHANGED <<failed, failures>>
       ELSE failed' = failed + 1 /\ failures' = Append(failures, r.result) /\ UNCHANGED passed

\* Mutant: the header counts every test that ran.
WrittenReport_counts_all ==
    [writes |-> report.writes + 1,
     total_failures |-> pos,
     no_failures |-> (failures = <<>>),
     blocks |-> [i \in 1..Len(failures) |-> failures[i].test_name]]

WrittenReport ==
    [writes |-> report.writes + 1,
     total_failures |-> failed,
     no_failures |-> (failures = <<>>),
     blocks |-> [i \in 1..Len(failures) |-> failures[i].test_name]]

\* TestRunner.load_test_cases (tests.py): sys.exit(1) when the file cannot be loaded
load_test_cases ==
    /\ runner = "function"
    /\ phase = "idle"
    /\ IF file.readable
       THEN tests' = file.tests /\ phase' = "running" /\ UNCHANGED <<cause, exit_status>>
       ELSE phase' = "exited" /\ cause' = "SpecLoadError" /\ exit_status' = 1 /\ UNCHANGED tests
    /\ UNCHANGED <<runner, archive, file, pos, passed, failed, failures, result, sys_stdout,
                   sys_stdin, before, report, history, cmp_vars, harness_vars, lines_vars,
                   sys_modules, steps, stdin_eof, stub_vars>>

\* One iteration of the loop of run_all_tests (tests.py lines 199-207)
run_next_test ==
    /\ runner = "function"
    /\ phase = "running"
    /\ pos < Len(tests)
    /\ \E r \in {run_single_test(archive, tests[pos + 1], sys_stdout, sys_stdin, pos + 1)} :
       /\ before' = [stdout |-> sys_stdout, stdin |-> sys_stdin]
       /\ sys_stdout' = r.stdout
       /\ sys_stdin' = r.stdin
       /\ IF r.raised = "Blocked"
          THEN /\ phase' = "blocked"
               /\ UNCHANGED <<cause, exit_status, pos, passed, failed, failures, result, history>>
          ELSE IF r.raised # ""
          THEN /\ phase' = "exited"
               /\ cause' = r.raised
               /\ exit_status' \in ExitCodes(r.raised, TRUE)
               /\ UNCHANGED <<pos, passed, failed, failures, result, history>>
          ELSE /\ pos' = pos + 1
               /\ Outcomes(r)
               /\ history' = Append(history, [start |-> NotStarted, result |-> r.result])
               /\ UNCHANGED <<phase, cause, exit_status>>
    /\ \E s \in {function_steps(sys_modules, archive, tests[pos + 1], pos + 1, th)} :
       /\ sys_modules' = s.cache
       /\ steps' = s.steps
    /\ UNCHANGED <<runner, archive, file, tests, report, cmp_vars, harness_vars, lines_vars,
                   stdin_eof, stub_vars>>

\* TestRunner.write_failure_report (tests.py), called once the loop is over
write_failure_report ==
    /\ runner = "function"
    /\ phase = "running"
    /\ pos = Len(tests)
    /\ report' = WrittenReport
    /\ phase' = "reported"
    /\ UNCHANGED <<runner, archive, file, tests, cause, pos, passed, failed, failures, result,
                   sys_stdout, sys_stdin, before, history, cmp_vars, harness_vars, lines_vars, host_vars, stub_vars>>

\* The summary and the final input() prompt (tests.py lines 210-216, 238)
finish ==
    /\ runner = "function"
    /\ phase = "reported"
    /\ phase' = "done"
    /\ exit_status' = Prompted
    /\ UNCHANGED <<runner, archive, file, tests, cause, pos, passed, failed, failures, result,
                   sys_stdout, sys_stdin, before, report, history, cmp_vars, harness_vars,
                   lines_vars, sys_modules, steps, stdin_eof, stub_vars>>

\* TestRunner.load_test_cases (main_tester.py)
battleship_load_test_cases ==
    /\ runner = "battleship"
    /\ phase = "idle"
    /\ IF file.readable
       THEN tests' = file.tests /\ phase' = "running" /\ UNCHANGED <<cause, exit_status>>
       ELSE phase' = "exited" /\ cause' = "SpecLoadError" /\ exit_status' = 1 /\ UNCHANGED tests
    /\ UNCHANGED <<runner, archive, file, pos, passed, failed, failures, result, sys_stdout,
                   sys_stdin, before, report, history, cmp_vars, harness_vars, lines_vars,
                   sys_modules, steps, stdin_eof, stub_vars>>

\* Mutant: a spec that did not pass is run again.
battleship_run_next_test_retries ==
    /\ runner = "battleship"
    /\ phase = "running"
    /\ pos < Len(tests)
    /\ \E r \in {battleship_run_single_test(archive, tests[pos + 1], th, sys_stdout, pos + 1)} :
       /\ before' = [stdout |-> sys_stdout, stdin |-> sys_stdin]
       /\ sys_stdout' = r.stdout
       /\ th' = r.th
       /\ IF r.raised = "Blocked"
          THEN /\ phase' = "blocked"
               /\ UNCHANGED <<cause, exit_status, pos, passed, failed, failures, result, history>>
          ELSE IF r.raised # ""
          THEN /\ phase' = "exited"
               /\ cause' = r.raised
               /\ exit_status' \in ExitCodes(r.raised, r.start.called)
               /\ UNCHANGED <<pos, passed, failed, failures, result, history>>
          ELSE /\ pos' = IF r.result.passed THEN pos + 1 ELSE pos
               /\ Outcomes(r)
               /\ history' = Append(history, [start |-> r.start, result |-> r.result])
               /\ UNCHANGED <<phase, cause, exit_status>>
    /\ \E s \in {battleship_steps(sys_modules, archive, tests[pos + 1], pos + 1, th)} :
       /\ sys_modules' = s.cache
       /\ steps' = s.steps
    /\ UNCHANGED <<runner, archive, file, tests, sys_stdin, report, cmp_vars, harness_vars,
                   lines_vars, stdin_eof, printed, last, rets>>

\* One iteration of the loop of run_all_tests (main_tester.py lines 221-229)
battleship_run_next_test ==
    /\ runner = "battleship"
    /\ phase = "running"
    /\ pos < Len(tests)
    /\ \E r \in {battleship_run_single_test(archive, tests[pos + 1], th, sys_stdout, pos + 1)} :
       /\ before' = [stdout |-> sys_stdout, stdin |-> sys_stdin]
       /\ sys_stdout' = r.stdout
       /\ th' = r.th
       /\ IF r.raised = "Blocked"
          THEN /\ phase' = "blocked"
               /\ UNCHANGED <<cause, exit_status, pos, passed, failed, failures, result, history>>
          ELSE IF r.raised # ""
          THEN /\ phase' = "exited"
               /\ cause' = r.raised
               /\ exit_status' \in ExitCodes(r.raised, r.start.called)
               /\ UNCHANGED <<pos, passed, failed, failures, result, history>>
          ELSE /\ pos' = pos + 1
               /\ Outcomes(r)
               /\ history' = Append(history, [start |-> r.start, result |-> r.result])
               /\ UNCHANGED <<phase, cause, exit_status>>
    /\ \E s \in {battleship_steps(sys_modules, archive, tests[pos + 1], pos + 1, th)} :
       /\ sys_modules' = s.cache
       /\ steps' = s.steps
    /\ UNCHANGED <<runner, archive, file, tests, sys_stdin, report, cmp_vars, harness_vars,
                   lines_vars, stdin_eof, printed, last, rets>>

\* TestRunner.write_failure_report (main_tester.py)
battleship_write_failure_report ==
    /\ runner = "battleship"
    /\ phase = "running"
    /\ pos = Len(tests)
    /\ report' = WrittenReport
    /\ phase' = "reported"
    /\ UNCHANGED <<runner, archive, file, tests, cause, pos, passed, failed, failures, result,
                   sys_stdout, sys_stdin, before, history, cmp_vars, harness_vars, lines_vars, host_vars, stub_vars>>

\* The summary and the final input() prompt (main_tester.py lines 233-239, 252)
battleship_finish ==
    /\ runner = "battleship"
    /\ phase = "reported"
    /\ phase' = "done"
    /\ exit_status' = Prompted
    /\ UNCHANGED <<runner, archive, file, tests, cause, pos, passed, failed, failures, result,
                   sys_stdout, sys_stdin, before, report, history, cmp_vars, harness_vars,
                   lines_vars, sys_modules, steps, stdin_eof, stub_vars>>

NextSession ==
    \/ load_test_cases
    \/ run_next_test
    \/ write_failure_report
    \/ finish
    \/ battleship_load_test_cases
    \/ battleship_run_next_test
    \/ battleship_write_failure_report
    \/ battleship_finish

(***************************************************************************)
(* Test files                                                              *)
(***************************************************************************)
Chars == {"H", "h", NL}
Strings == SeqsUpTo(Chars, MaxStrLen)
AltStrings == {<<>>, <<"H">>, <<"h", NL>>}
ReturnValues == {PyNone, PyInt(5), PyInt(1), PyBool(1), PyList(<<PyInt(1)>>), PyTuple(<<PyInt(1)>>)}

FunctionKeys == {"test_name", "module", "function", "args"}

\* A record of test_cases.json (tests.py); `keys` are the keys it holds.
FunctionTest(keys, module, function, input_text, expected_return, expected_output) ==
    [keys |-> FunctionKeys \cup keys, test_name |-> "t", module |-> module,
     function |-> function, args |-> <<2, 3>>, input_text |-> input_text,
     expected_return |-> expected_return, expected_output |-> expected_output]

\* Single tests that exercise the output comparison.
OutputTests ==
    {FunctionTest({"expected_return", "expected_output"}, "ex3", Returns(out, PyInt(5)),
                  InNone, PyInt(5), e) :
        out \in Strings,
        e \in {ExpStr(x) : x \in Strings} \cup {ExpList(a) : a \in SeqsUpTo(AltStrings, MaxAlts)}}
    \cup
    {FunctionTest({"expected_return"}, "ex3", Returns(out, PyInt(5)), InNone, PyInt(5),
                  ExpStr(<<>>)) : out \in Strings}

\* Single tests that exercise the return comparison, the ways a target can
\* end, the kinds of input_text, and a target that cannot be resolved.
ReturnTests ==
    {FunctionTest(k \cup {"expected_output"}, m, f, i, er, ExpStr(<<"H">>)) :
        k \in SUBSET {"expected_return", "input_text"},
        m \in {"ex3", "no_such_module"},
        f \in {Returns(out, ret) : out \in {<<>>, <<"H", NL>>}, ret \in ReturnValues}
              \cup {Raises(<<"H">>), Exits(<<"H">>), NoFunction},
        i \in {InStr(<<"1">>), InList(<<<<"1">>, <<"2">>>>), InNumber},
        er \in ReturnValues}
    \cup
    {FunctionTest(k, "ex3", Returns(<<>>, ret), InNone, er, ExpStr(<<>>)) :
        k \in SUBSET {"expected_return"}, ret \in ReturnValues, er \in ReturnValues}

BattleshipKeys == {"test_name", "rows", "columns", "ship_sizes", "function"}

\* A record of main_cases.json (main_tester.py)
BattleshipTest(keys, function, input_text, placements, torpedoes, expected_output) ==
    [keys |-> keys, test_name |-> "t", rows |-> 2, columns |-> 3, ship_sizes |-> <<2>>,
     function |-> function, input_text |-> input_text,
     computer_ship_placements |-> placements, computer_torpedo_sequence |-> torpedoes,
     expected_output |-> expected_output]

\* Single battleship tests that exercise the output comparison.
BattleshipOutputTests ==
    {BattleshipTest(BattleshipKeys \cup k, Program("returns", <<WriteText(out)>>),
                    <<>>, <<>>, <<>>, e) :
        k \in SUBSET {"expected_output"}, out \in Strings, e \in Strings}

\* main(): two prompts, a ship placement and two torpedoes, each choice printed
MainScript ==
    <<CallGetInput(<<"?">>), CallChooseShip(<<<<0, 0>>>>), PrintLast,
      CallGetInput(<<"?">>), CallChooseTorpedo(<<<<1, 0>>, <<2, 2>>>>), PrintLast,
      CallChooseTorpedo(<<<<1, 0>>, <<2, 2>>>>), PrintLast>>

ScriptedKeys == {"input_text", "computer_ship_placements", "computer_torpedo_sequence",
                 "expected_output"}

\* what main() prints when the stub is configured from the scripted spec below
ScriptedOutput ==
    <<"?", "a", NL, "(", "1", ",", " ", "1", ")", NL, "?", NL,
      "(", "0", ",", " ", "1", ")", NL, "(", "1", ",", " ", "0", ")", NL>>

\* The specs of the battleship sessions.
BattleshipTests ==
    {BattleshipTest(BattleshipKeys \cup ScriptedKeys, Program("returns", MainScript),
                    <<<<"a">>>>, <<RawName(<<"b", "2">>)>>, <<RawPair(<<0, 1>>)>>,
                    ScriptedOutput),
     BattleshipTest(BattleshipKeys \cup {"expected_output"}, Program("returns", MainScript),
                    <<>>, <<>>, <<>>, ScriptedOutput),
     BattleshipTest(BattleshipKeys \cup ScriptedKeys, Program("raises", MainScript),
                    <<<<"b">>, <<"a">>>>, <<>>, <<RawPair(<<1, 1>>)>>, ScriptedOutput),
     BattleshipTest(BattleshipKeys \cup ScriptedKeys, Program("exits", <<CallGetInput(<<"?">>)>>),
                    <<<<"b">>>>, <<>>, <<>>, <<>>),
     BattleshipTest(BattleshipKeys \cup ScriptedKeys, NoProgram,
                    <<<<"b">>>>, <<>>, <<>>, <<>>),
     BattleshipTest(BattleshipKeys \cup ScriptedKeys, Program("returns", MainScript),
                    <<<<"b">>>>, <<RawPair(<<0, 0>>)>>, <<RawName(<<"b">>)>>, ScriptedOutput),
     BattleshipTest((BattleshipKeys \ {"test_name"}) \cup ScriptedKeys,
                    Program("returns", MainScript), <<>>, <<>>, <<>>, ScriptedOutput),
     BattleshipTest(BattleshipKeys \cup ScriptedKeys, Program("loops", <<CallGetInput(<<"?">>)>>),
                    <<<<"a">>>>, <<>>, <<>>, <<>>)}

\* The specs of the function sessions.
FunctionTests ==
    {FunctionTest({"expected_return", "expected_output"}, "ex3",
                  Returns(<<"H", NL>>, PyInt(5)), InNone, PyInt(5), ExpStr(<<"H">>)),
     FunctionTest({"expected_return", "expected_output", "input_text"}, "ex3",
                  Returns(<<"h">>, PyInt(5)), InList(<<<<"1">>>>), PyInt(5), ExpStr(<<"H">>)),
     FunctionTest({"expected_return", "input_text"}, "ex3",
                  Raises(<<"H">>), InStr(<<"1">>), PyInt(5), ExpStr(<<>>)),
     FunctionTest({"expected_return"}, "ex3", Exits(<<>>), InNone, PyInt(5), ExpStr(<<>>)),
     FunctionTest({"expected_return", "input_text"}, "ex3",
                  Returns(<<>>, PyInt(5)), InNumber, PyInt(5), ExpStr(<<>>)),
     FunctionTest({"expected_return"}, "no_such_module",
                  Returns(<<>>, PyInt(5)), InNone, PyInt(5), ExpStr(<<>>)),
     FunctionTest({"expected_return", "expected_output"}, "ex3",
                  Returns(<<"h">>, PyInt(1)), InNone, PyInt(5), ExpStr(<<"H">>)),
     FunctionTest({"expected_return", "input_text"}, "ex3",
                  Loops(<<"H">>), InStr(<<"1">>), PyInt(5), ExpStr(<<>>))}

SessionStart ==
    /\ phase = "idle"
    /\ cause = ""
    /\ tests = <<>>
    /\ pos = 0
    /\ passed = 0
    /\ failed = 0
    /\ failures = <<>>
    /\ result = NoResult
    /\ sys_stdout = Console
    /\ sys_stdin = Keyboard
    /\ before = [stdout |-> Console, stdin |-> Keyboard]
    /\ report = NoReport
    /\ history = <<>>
    /\ CmpIdle
    /\ StubIdle
    /\ HarnessIdle
    /\ LinesIdle
    /\ sys_modules = NoModules
    /\ steps = <<>>
    /\ stdin_eof \in BOOLEAN
    /\ exit_status = -1

\* A session over a test file of up to MaxTests specs, or over an unreadable one.
InitSession ==
    /\ SessionStart
    /\ \/ /\ runner = "function"
          /\ archive = {"ex3"}
          /\ file \in {[readable |-> FALSE, tests |-> <<>>]}
                      \cup {[readable |-> TRUE, tests |-> l] :
                                l \in SeqsUpTo(FunctionTests, MaxTests)}
       \/ /\ runner = "battleship"
          /\ archive \in {{"test_helper", "battleship"}, {"battleship"}, {"test_helper"}}
          /\ file \in {[readable |-> FALSE, tests |-> <<>>]}
                      \cup {[readable |-> TRUE, tests |-> l] :
                                l \in SeqsUpTo(BattleshipTests, MaxTests)}

SpecSession == InitSession /\ [][NextSession]_vars

\* A session over a test file of one spec.
InitVerdict ==
    /\ SessionStart
    /\ \/ /\ runner = "function"
          /\ archive = {"ex3"}
          /\ file \in {[readable |-> TRUE, tests |-> <<t>>] : t \in OutputTests \cup ReturnTests}
       \/ /\ runner = "battleship"
          /\ archive = {"test_helper", "battleship"}
          /\ file \in {[readable |-> TRUE, tests |-> <<t>>] : t \in BattleshipOutputTests}

SpecVerdict == InitVerdict /\ [][NextSession]_vars

(***************************************************************************)
(* The stub driven call by call, as a submission drives it during a test   *)
(***************************************************************************)
Prompts == {<<"?">>}
Messages == {<<"m">>}
Candidates == {<<>>, <<<<2, 2>>>>, <<<<1, 0>>, <<2, 2>>>>, <<<<0, 1>>, <<1, 1>>>>}
Boards == {<<<<WATER, SHIP, HIT_WATER, HIT_SHIP>>>>}
SecondBoards == {<<"None">>, <<<<SHIP>>, <<WATER>>>>}

\* A scripted input queue of n entries: "a", "b", "a", ...
QueueOf(n) == [i \in 1..n |-> IF i % 2 = 1 THEN <<"a">> ELSE <<"b">>]

\* The stub configurations of the call-by-call exploration.
StubSpecs ==
    {[keys |-> {"test_name", "function", "rows", "columns", "ship_sizes", "input_text",
                "computer_ship_placements", "computer_torpedo_sequence"},
      rows |-> 2, columns |-> 3, ship_sizes |-> <<2>>,
      input_text |-> QueueOf(n), computer_ship_placements |-> sp,
      computer_torpedo_sequence |-> ts] :
        n \in 0..MaxQueue,
        sp \in SeqsUpTo({RawName(<<"b", "2">>)}, MaxChoices),
        ts \in SeqsUpTo({RawPair(<<0, 1>>)}, MaxChoices)}

InitStub == CmpIdle /\ StubIdle /\ RunIdle /\ HarnessIdle /\ LinesIdle /\ HostIdle

\* The runner configures the stub for a test.
Prepare ==
    \E spec \in StubSpecs :
        LET o == prepare_test_helper(th, spec) IN
        /\ th' = o.th
        /\ printed' = <<>>
        /\ last' = [op |-> "prepare_test_helper", arg |-> <<>>, ret |-> RetNone, raised |-> o.raised]
        /\ rets' = <<>>
        /\ UNCHANGED <<cmp_vars, harness_vars, lines_vars, host_vars, run_vars>>

Reset ==
    /\ th' = reset(th)
    /\ last' = [op |-> "reset", arg |-> <<>>, ret |-> RetNone, raised |-> ""]
    /\ rets' = <<>>
    /\ printed' = <<>>
    /\ UNCHANGED <<cmp_vars, harness_vars, lines_vars, host_vars, run_vars>>

GetInput ==
    \E msg \in Prompts :
        LET o == get_input(th, <<>>, msg) IN
        /\ Len(rets) < MaxQueue + 2
        /\ th' = o.th
        /\ printed' = o.out
        /\ last' = Call("get_input", msg, o)
        /\ rets' = Append(rets, o.ret.s)
        /\ UNCHANGED <<cmp_vars, harness_vars, lines_vars, host_vars, run_vars>>

ShowMsg ==
    \E msg \in Messages :
        LET o == show_msg(th, <<>>, msg) IN
        /\ th' = o.th
        /\ printed' = o.out
        /\ last' = Call("show_msg", msg, o)
        /\ UNCHANGED <<rets, cmp_vars, harness_vars, lines_vars, host_vars, run_vars>>

ShowBoard ==
    \E b1 \in Boards, b2 \in SecondBoards :
        LET o == show_board(th, <<>>, b1, b2) IN
        /\ th' = o.th
        /\ printed' = o.out
        /\ last' = Call("show_board", <<>>, o)
        /\ UNCHANGED <<rets, cmp_vars, harness_vars, lines_vars, host_vars, run_vars>>

RandomCell ==
    \E cells \in Candidates :
        LET o == random_cell(th, <<>>, cells) IN
        /\ th' = o.th
        /\ printed' = o.out
        /\ last' = Call("random_cell", cells, o)
        /\ UNCHANGED <<rets, cmp_vars, harness_vars, lines_vars, host_vars, run_vars>>

ChooseShipLocation ==
    \E locations \in Candidates :
        LET o == choose_ship_location(th, <<>>, locations) IN
        /\ th' = o.th
        /\ printed' = o.out
        /\ last' = Call("choose_ship_location", locations, o)
        /\ UNCHANGED <<rets, cmp_vars, harness_vars, lines_vars, host_vars, run_vars>>

ChooseTorpedoTarget ==
    \E locations \in Candidates :
        LET o == choose_torpedo_target(th, <<>>, locations) IN
        /\ th' = o.th
        /\ printed' = o.out
        /\ last' = Call("choose_torpedo_target", locations, o)
        /\ UNCHANGED <<rets, cmp_vars, harness_vars, lines_vars, host_vars, run_vars>>

Seed ==
    LET o == seed(th, <<>>) IN
    /\ th' = o.th
    /\ printed' = o.out
    /\ last' = Call("seed", <<>>, o)
    /\ UNCHANGED <<rets, cmp_vars, harness_vars, lines_vars, host_vars, run_vars>>

NextStub ==
    \/ Prepare
    \/ Reset
    \/ GetInput
    \/ ShowMsg
    \/ ShowBoard
    \/ RandomCell
    \/ ChooseShipLocation
    \/ ChooseTorpedoTarget
    \/ Seed

SpecStub == InitStub /\ [][NextStub]_vars

InitCmp ==
    /\ StubIdle
    /\ RunIdle
    /\ HarnessIdle
    /\ LinesIdle
    /\ HostIdle
    /\ actual \in Values
    /\ expected \in Values
    /\ cmp_done = FALSE
    /\ cmp_result = [xy |-> FALSE, yx |-> FALSE, xx |-> FALSE]

\* compare_values applied to the pair, to the swapped pair and to (actual, actual)
Compare ==
    /\ ~cmp_done
    /\ cmp_done' = TRUE
    /\ cmp_result' = [xy |-> compare_values(actual, expected),
                      yx |-> compare_values(expected, actual),
                      xx |-> compare_values(actual, actual)]
    /\ UNCHANGED <<actual, expected, stub_vars, run_vars, harness_vars, lines_vars, host_vars>>

NextCmp == Compare

SpecCmp == InitCmp /\ [][NextCmp]_vars

(***************************************************************************)
(* Claims about compare_values                                             *)
(***************************************************************************)

\* C5: compare_values follows the four rules in order: both absent gives
\* true; exactly one absent gives false; two ordered sequences (list or
\* tuple, in any mix) give true iff the lengths are equal and every
\* positional pair compares equal; otherwise the result is Python's ==.
C5_FourRules ==
    cmp_done =>
        IF actual = PyNone /\ expected = PyNone THEN cmp_result.xy = TRUE
        ELSE IF actual = PyNone \/ expected = PyNone THEN cmp_result.xy = FALSE
        ELSE IF actual.k \in {"list", "tuple"} /\ expected.k \in {"list", "tuple"} THEN
            cmp_result.xy =
                (/\ Len(actual.items) = Len(expected.items)
                 /\ \A i \in 1..Len(actual.items) :
                        i <= Len(expected.items)
                            => compare_values(actual.items[i], expected.items[i]))
        ELSE cmp_result.xy = PyEq(actual, expected)

\* C5 witness: a list compared with a tuple of another length, element-wise equal on the common prefix.
C5_Witness ==
    /\ cmp_done
    /\ actual = PyList(<<PyInt(1)>>)
    /\ expected = PyTuple(<<PyInt(1), PyNone>>)
    /\ cmp_result.xy = FALSE

\* C6 as stated: compare_values is reflexive and symmetric on all values.
C6_ReflexiveSymmetric ==
    cmp_done => (cmp_result.xx = TRUE /\ cmp_result.xy = cmp_result.yx)

\* C6 amended: compare_values is symmetric on all values, and reflexive on
\* every value that holds no NaN float at any depth.
C6_SymmetricReflexiveNoNaN ==
    cmp_done =>
        /\ cmp_result.xy = cmp_result.yx
        /\ (~HasNaN(actual) => cmp_result.xx = TRUE)
        /\ (HasNaN(actual) => cmp_result.xx = FALSE)

\* C6 witness: a list against a tuple, an absent value nested in both, equal both ways.
C6_Witness ==
    /\ cmp_done
    /\ actual = PyList(<<PyInt(1), PyNone>>)
    /\ expected = PyTuple(<<PyBool(1), PyNone>>)
    /\ cmp_result.xy = TRUE
    /\ cmp_result.yx = TRUE
    /\ cmp_result.xx = TRUE

(***************************************************************************)
(* Claims about the stub                                                   *)
(***************************************************************************)
Min(a, b) == IF a < b THEN a ELSE b

\* C7: after the cursors are zeroed, the k-th call of get_input returns the
\* k-th scripted entry while k <= N = len(INPUT_QUEUE) and the empty string
\* on every later call, never raises, and the cursor is min(calls, N): it
\* stays at N from call N+1 on.
C7_InputExhaustion ==
    /\ \A i \in 1..Len(rets) :
           rets[i] = IF i <= Len(th.INPUT_QUEUE) THEN th.INPUT_QUEUE[i] ELSE <<>>
    /\ th._input_index = Min(Len(rets), Len(th.INPUT_QUEUE))
    /\ (last.op = "get_input" => last.raised = "" /\ last.ret = RetStr(rets[Len(rets)]))

\* C7 witness: N = 2 entries, N + 2 calls made, the last two answered by the fallback.
C7_Witness ==
    /\ Len(th.INPUT_QUEUE) = 2
    /\ Len(rets) = 4
    /\ rets = <<<<"a">>, <<"b">>, <<>>, <<>>>>
    /\ th._input_index = 2
    /\ last.op = "get_input"

CursorsInRange ==
    /\ 0 <= th._input_index /\ th._input_index <= Len(th.INPUT_QUEUE)
    /\ 0 <= th._ship_index /\ th._ship_index <= Len(th.SHIP_PLACEMENTS)
    /\ 0 <= th._torpedo_index /\ th._torpedo_index <= Len(th.TORPEDO_SEQUENCE)

CursorsAdvanceByOne ==
    last'.op \notin {"reset", "prepare_test_helper"} =>
        /\ th'._input_index \in {th._input_index, th._input_index + 1}
        /\ th'._ship_index \in {th._ship_index, th._ship_index + 1}
        /\ th'._torpedo_index \in {th._torpedo_index, th._torpedo_index + 1}

\* C8: each of the three cursors stays between 0 and the length of its
\* queue in every reachable state, and every stub operation other than reset
\* and the per-test reconfiguration leaves each cursor unchanged or advances
\* it by exactly one.
C8_CursorInvariant == [](CursorsInRange) /\ [][CursorsAdvanceByOne]_vars

\* C8 witness: after scripted reads, the input and ship cursors stand at the ends of their queues.
C8_Witness ==
    /\ last.op = "choose_ship_location"
    /\ Len(th.INPUT_QUEUE) = 2 /\ th._input_index = 2
    /\ Len(th.SHIP_PLACEMENTS) = 1 /\ th._ship_index = 1
    /\ th._torpedo_index = 0

ChooseStep(op, queue, index) ==
    last'.op = op =>
        IF th[index] < Len(th[queue])
        THEN /\ last'.ret = RetCell(th[queue][th[index] + 1])
             /\ last'.raised = ""
             /\ th' = [th EXCEPT ![index] = @ + 1]
        ELSE /\ th' = th
             /\ (last'.arg # <<>> => last'.ret = RetCell(last'.arg[1]) /\ last'.raised = "")

C1_FailureIsolation == phase = "exited" => cause = "SpecLoadError"

\* C2 (as stated): between tests the process-wide channels are the objects
\* they were before the test ran.  The function runner rebinds sys.stdout
\* before it builds StringIO(input_text), outside the try block.
C2_ChannelsRestored == sys_stdout = before.stdout /\ sys_stdin = before.stdin

TheTest == file.tests[1]
ExpectedText == Get(TheTest, "expected_output", ExpStr(<<>>))

\* C3: in a function session over one test with a string expected_output,
\* the test is counted as passed exactly when the target was resolved, the
\* call raised nothing, the returned value equals expected_return (None when
\* omitted) under compare_values and the trimmed output equals the trimmed
\* expected_output ("" when omitted); otherwise it is counted as failed.
C3_Verdict ==
    (runner = "function" /\ pos = 1 /\ ExpectedText.t = "str") =>
        /\ result.passed <=>
              /\ TheTest.module \in archive
              /\ TheTest.function.kind = "returns"
              /\ Get(TheTest, "input_text", InNone).t \in {"None", "str", "list"}
              /\ compare_values(TheTest.function.ret, Get(TheTest, "expected_return", PyNone))
              /\ strip(TheTest.function.out) = strip(ExpectedText.s)
        /\ passed = (IF result.passed THEN 1 ELSE 0)
        /\ failed = 1 - passed

C3_Witness ==
    /\ runner = "function" /\ pos = 1
    /\ TheTest.function = Returns(<<>>, PyInt(5))
    /\ Get(TheTest, "expected_return", PyNone) = PyInt(5)
    /\ "input_text" \notin TheTest.keys
    /\ "expected_output" \notin TheTest.keys
    /\ result.passed /\ passed = 1 /\ failed = 0

\* c is s without its leading and trailing whitespace
IsTrimOf(c, s) ==
    \E i \in 0..Len(s) : \E j \in i..Len(s) :
        /\ c = SubSeq(s, i + 1, j)
        /\ \A n \in 1..i : IsSpace(s[n])
        /\ \A n \in (j + 1)..Len(s) : IsSpace(s[n])
        /\ c = <<>> \/ (~IsSpace(c[1]) /\ ~IsSpace(c[Len(c)]))

SameTrimmed(a, b) ==
    \E i \in 0..Len(a) : \E j \in i..Len(a) :
        IsTrimOf(SubSeq(a, i + 1, j), a) /\ IsTrimOf(SubSeq(a, i + 1, j), b)

\* the text the target of the single test writes, and the text expected of it
WrittenText ==
    IF runner = "function" THEN TheTest.function.out ELSE TheTest.function.script[1].text
WantedText ==
    IF runner = "function" THEN ExpectedText.s ELSE Get(TheTest, "expected_output", <<>>)

\* the single test has run up to the comparison of the output
OutputCompared ==
    /\ pos = 1
    /\ TheTest.function.kind = "returns"
    /\ runner = "function" =>
          /\ TheTest.module \in archive
          /\ ExpectedText.t = "str"
          /\ Get(TheTest, "input_text", InNone).t \in {"None", "str", "list"}
          /\ compare_values(TheTest.function.ret, Get(TheTest, "expected_return", PyNone))

\* C4: in both runners the output matches a string expected_output exactly
\* when the two texts are equal once the leading and trailing whitespace of
\* each is removed (case and interior whitespace count); a test that differs
\* only there is reported as "Output mismatch".
C4_TrimmedEquality ==
    OutputCompared =>
        /\ result.passed <=> SameTrimmed(WrittenText, WantedText)
        /\ ~result.passed <=> result.error = "Output mismatch"

C4_Witness ==
    /\ OutputCompared
    /\ runner = "battleship"
    /\ WrittenText = <<"H", NL>>
    /\ WantedText = <<"H">>
    /\ result.passed

\* the stub as prepare_test_helper must leave it for a spec
ConfiguredFor(t, spec) ==
    /\ t._input_index = 0 /\ t._ship_index = 0 /\ t._torpedo_index = 0
    /\ t.INPUT_QUEUE = Get(spec, "input_text", <<>>)
    /\ Len(t.SHIP_PLACEMENTS) = Len(Get(spec, "computer_ship_placements", <<>>))
    /\ Len(t.TORPEDO_SEQUENCE) = Len(Get(spec, "computer_torpedo_sequence", <<>>))
    /\ \A n \in 1..Len(t.SHIP_PLACEMENTS) :
          t.SHIP_PLACEMENTS[n] = ToLoc(spec.computer_ship_placements[n]).loc
    /\ \A n \in 1..Len(t.TORPEDO_SEQUENCE) :
          t.TORPEDO_SEQUENCE[n] = ToLoc(spec.computer_torpedo_sequence[n]).loc

\* C10: in a battleship session every target starts with the stub's cursors
\* at 0 and its queues equal to the sequences of its own spec, and two runs
\* of the same spec start from the same stub state and end with the same
\* captured output and verdict, whatever ran between them.
C10_ReplayDeterminism ==
    runner = "battleship" =>
        /\ \A i \in 1..Len(history) :
              history[i].start.called => ConfiguredFor(history[i].start.th, tests[i])
        /\ \A i \in 1..Len(history) : \A j \in 1..Len(history) :
              tests[i] = tests[j] => history[i] = history[j]

C10_Witness ==
    /\ runner = "battleship"
    /\ Len(history) = 3
    /\ tests[1] = tests[3] /\ tests[2] # tests[1]
    /\ history[1].start.called /\ history[1].result.passed
    /\ history[1].start.th.INPUT_QUEUE # <<>>
    /\ history[2].start.called /\ ~history[2].result.passed
    /\ history[3] = history[1]

(***************************************************************************)
(* Claims about reset                                                      *)
(***************************************************************************)
\* C11: whatever state the stub is in, reset leaves all three cursors at 0
\* and the three queues and the board configuration as they were, and a
\* second reset changes nothing.
C11_ResetFrame ==
    [][last'.op = "reset" =>
          /\ th'._input_index = 0 /\ th'._ship_index = 0 /\ th'._torpedo_index = 0
          /\ th'.INPUT_QUEUE = th.INPUT_QUEUE
          /\ th'.SHIP_PLACEMENTS = th.SHIP_PLACEMENTS
          /\ th'.TORPEDO_SEQUENCE = th.TORPEDO_SEQUENCE
          /\ th'.NUM_ROWS = th.NUM_ROWS
          /\ th'.NUM_COLUMNS = th.NUM_COLUMNS
          /\ th'.SHIP_SIZES = th.SHIP_SIZES
          /\ reset(th') = th']_vars

C11_Witness ==
    /\ last.op = "reset"
    /\ Len(th.INPUT_QUEUE) = MaxQueue
    /\ th.SHIP_PLACEMENTS # <<>>
    /\ th.TORPEDO_SEQUENCE # <<>>
    /\ th._input_index = 0 /\ th._ship_index = 0 /\ th._torpedo_index = 0

(***************************************************************************)
(* src/ex5/run_harness.py: the comparison of the output file (202-214)     *)
(***************************************************************************)
\* ord(ch) for the characters of the texts below
ord(ch) ==
    IF ch = NL THEN 10 ELSE IF ch = " " THEN 32 ELSE IF ch = "a" THEN 97
    ELSE IF ch = "b" THEN 98 ELSE IF ch = "c" THEN 99 ELSE 120

RECURSIVE str_lt(_, _)
\* a < b on Python strings
str_lt(a, b) ==
    IF b = <<>> THEN FALSE
    ELSE IF a = <<>> THEN TRUE
    ELSE IF Head(a) # Head(b) THEN ord(Head(a)) < ord(Head(b))
    ELSE str_lt(Tail(a), Tail(b))

RECURSIVE split(_, _)
\* s.split(sep) for a one-character sep
split(s, sep) ==
    IF \A i \in 1..Len(s) : s[i] # sep THEN <<s>>
    ELSE <<SubSeq(s, 1, (CHOOSE i \in 1..Len(s) :
                            s[i] = sep /\ \A j \in 1..(i - 1) : s[j] # sep) - 1)>>
         \o split(SubSeq(s, (CHOOSE i \in 1..Len(s) :
                                s[i] = sep /\ \A j \in 1..(i - 1) : s[j] # sep) + 1, Len(s)), sep)

RECURSIVE insort(_, _)
\* the sorted list l with x inserted
insort(l, x) ==
    IF l = <<>> THEN <<x>>
    ELSE IF str_lt(x, Head(l)) THEN <<x>> \o l
    ELSE <<Head(l)>> \o insort(Tail(l), x)

RECURSIVE sorted(_)
sorted(l) == IF l = <<>> THEN <<>> ELSE insort(sorted(Tail(l)), Head(l))

IsNonBlank(line) == strip(line) # <<>>

\* [line for line in content.strip().split('\n') if line.strip()]
given_lines(content) == SelectSeq(split(strip(content), NL), IsNonBlank)

\* the same list, sorted (lines 206-207)
lines_of(content) == sorted(given_lines(content))

\* lines 202-214: the verdict on an output file that was read
compare_output(actual_text, expected_text) ==
    IF lines_of(actual_text) = lines_of(expected_text) THEN "PASS" ELSE "FAIL"

RECURSIVE Joined(_)
\* "\n".join(lines)
Joined(lines) ==
    IF lines = <<>> THEN <<>>
    ELSE IF Len(lines) = 1 THEN lines[1]
    ELSE lines[1] \o <<NL>> \o Joined(Tail(lines))

\* l[lo:hi]
Slice(l, lo, hi) == SubSeq(l, lo + 1, hi)

\* The blocks (i, j, k) with a[i:i+k] = b[j:j+k] inside a[alo:ahi], b[blo:bhi].
MatchesIn(a, b, alo, ahi, blo, bhi) ==
    {m \in (alo..(ahi - 1)) \X (blo..(bhi - 1)) \X (1..(ahi - alo)) :
        /\ m[1] + m[3] <= ahi
        /\ m[2] + m[3] <= bhi
        /\ Slice(a, m[1], m[1] + m[3]) = Slice(b, m[2], m[2] + m[3])}

\* SequenceMatcher.find_longest_match: the longest block, of those the one
\* that starts earliest in a, and of those the one that starts earliest in b.
find_longest_match(a, b, alo, ahi, blo, bhi) ==
    CHOOSE m \in MatchesIn(a, b, alo, ahi, blo, bhi) :
        \A n \in MatchesIn(a, b, alo, ahi, blo, bhi) :
            \/ m[3] > n[3]
            \/ m[3] = n[3] /\ m[1] < n[1]
            \/ m[3] = n[3] /\ m[1] = n[1] /\ m[2] <= n[2]

RECURSIVE matching_blocks(_, _, _, _, _, _)
RECURSIVE blocks_around(_, _, _, _, _, _, _)
\* the longest block, then the blocks to its left and to its right
matching_blocks(a, b, alo, ahi, blo, bhi) ==
    IF MatchesIn(a, b, alo, ahi, blo, bhi) = {} THEN <<>>
    ELSE blocks_around(a, b, alo, ahi, blo, bhi, find_longest_match(a, b, alo, ahi, blo, bhi))
blocks_around(a, b, alo, ahi, blo, bhi, m) ==
    matching_blocks(a, b, alo, m[1], blo, m[2]) \o <<m>>
        \o matching_blocks(a, b, m[1] + m[3], ahi, m[2] + m[3], bhi)

RECURSIVE merged(_)
\* get_matching_blocks: adjacent blocks are collapsed into one
merged(blocks) ==
    IF Len(blocks) < 2 THEN blocks
    ELSE IF /\ blocks[1][1] + blocks[1][3] = blocks[2][1]
            /\ blocks[1][2] + blocks[1][3] = blocks[2][2]
         THEN merged(<<<<blocks[1][1], blocks[1][2], blocks[1][3] + blocks[2][3]>>>>
                     \o Tail(Tail(blocks)))
         ELSE <<blocks[1]>> \o merged(Tail(blocks))

Opcode(tag, i1, i2, j1, j2) == [tag |-> tag, i1 |-> i1, i2 |-> i2, j1 |-> j1, j2 |-> j2]

\* what get_opcodes emits for a[i:ai], b[j:bj] between two blocks
Between(i, ai, j, bj) ==
    IF i < ai /\ j < bj THEN <<Opcode("replace", i, ai, j, bj)>>
    ELSE IF i < ai THEN <<Opcode("delete", i, ai, j, bj)>>
    ELSE IF j < bj THEN <<Opcode("insert", i, ai, j, bj)>>
    ELSE <<>>

RECURSIVE opcodes_from(_, _, _, _, _)
opcodes_from(blocks, i, j, la, lb) ==
    IF blocks = <<>> THEN Between(i, la, j, lb)
    ELSE Between(i, blocks[1][1], j, blocks[1][2])
         \o <<Opcode("equal", blocks[1][1], blocks[1][1] + blocks[1][3],
                      blocks[1][2], blocks[1][2] + blocks[1][3])>>
         \o opcodes_from(Tail(blocks), blocks[1][1] + blocks[1][3],
                         blocks[1][2] + blocks[1][3], la, lb)

\* SequenceMatcher(None, a, b).get_opcodes()
get_opcodes(a, b) ==
    opcodes_from(merged(matching_blocks(a, b, 0, Len(a), 0, Len(b))), 0, 0, Len(a), Len(b))

\* The table of the opcodes: per opcode the lines of either side that its
\* rows show, and whether those rows are marked as a difference.
table_of(fromlines, tolines, ops) ==
    [made |-> TRUE, fromlines |-> fromlines, tolines |-> tolines, opcodes |-> ops,
     rows |-> [n \in 1..Len(ops) |->
                  [marked |-> ops[n].tag # "equal",
                   from |-> Slice(fromlines, ops[n].i1, ops[n].i2),
                   to |-> Slice(tolines, ops[n].j1, ops[n].j2)]]]

\* difflib.HtmlDiff(wrapcolumn=80).make_table(fromlines, tolines, ...)
make_table(fromlines, tolines) ==
    table_of(fromlines, tolines, get_opcodes(fromlines, tolines))

\* Mutant: the lines are aligned in the order the files hold them.
diff_of_given_order(actual_text, expected_text) ==
    IF compare_output(actual_text, expected_text) = "PASS" THEN NoDiff
    ELSE make_table(given_lines(expected_text), given_lines(actual_text))

\* lines 202-218: the diff that a FAIL puts in the report
diff_of(actual_text, expected_text) ==
    IF compare_output(actual_text, expected_text) = "PASS" THEN NoDiff
    ELSE make_table(lines_of(expected_text), lines_of(actual_text))

LineChars == {"a", " ", NL}
Contents == SeqsUpTo(LineChars, MaxTextLen)

InitLines ==
    /\ CmpIdle /\ StubIdle /\ RunIdle /\ HarnessIdle /\ HostIdle
    /\ actual_content \in Contents
    /\ expected_content \in Contents
    /\ compared = ""
    /\ html_diff = NoDiff

CompareOutput ==
    /\ compared = ""
    /\ compared' = compare_output(actual_content, expected_content)
    /\ html_diff' = diff_of(actual_content, expected_content)
    /\ UNCHANGED <<actual_content, expected_content, cmp_vars, stub_vars, run_vars,
                   harness_vars, host_vars>>

NextLines == CompareOutput

SpecLines == InitLines /\ [][NextLines]_vars

\* Output files of up to MaxLines one-letter lines.
MaxLines == 3
Letters == {"a", "b", "c", "x"}
LetterFiles == {Joined(l) : l \in SeqsUpTo({<<ch>> : ch \in Letters}, MaxLines)}

InitDiff ==
    /\ CmpIdle /\ StubIdle /\ RunIdle /\ HarnessIdle /\ HostIdle
    /\ actual_content \in LetterFiles
    /\ expected_content \in LetterFiles
    /\ compared = ""
    /\ html_diff = NoDiff

SpecDiff == InitDiff /\ [][NextLines]_vars

\* the lines of a text that hold something other than whitespace
NonBlankLines(text) == SelectSeq(split(text, NL), IsNonBlank)

Copies(line, lines) == Cardinality({i \in 1..Len(lines) : lines[i] = line})

SameMultiset(k, l) ==
    /\ \A i \in 1..Len(k) : Copies(k[i], k) = Copies(k[i], l)
    /\ \A i \in 1..Len(l) : Copies(l[i], k) = Copies(l[i], l)

Reversed(lines) == [i \in 1..Len(lines) |-> lines[Len(lines) + 1 - i]]

\* C12 (as stated): the verdict is PASS exactly when the two texts hold the
\* same multiset of non-blank lines, and it does not change when the lines
\* of the actual text are put in another order.  The code trims the whole
\* text before it splits it, so a line at the start or the end of the text
\* loses its outer whitespace and a line in the middle keeps it.
C12_OrderInsensitive ==
    compared # "" =>
        /\ compared = "PASS" <=>
              SameMultiset(NonBlankLines(actual_content), NonBlankLines(expected_content))
        /\ compare_output(Joined(Reversed(split(actual_content, NL))), expected_content) = compared

(***************************************************************************)
(* src/ex5/run_harness.py: main(), one action per step of the session      *)
(***************************************************************************)
\* What `wsl.exe python3 wordsearch.py ...` does on the files of a test.
Exit(returncode, wrote, output, stderr) ==
    [kind |-> "exits", returncode |-> returncode, wrote |-> wrote, output |-> output,
     stderr |-> stderr]
\* it is still running when TIMEOUT_SECONDS have passed
Hang(wrote, output) ==
    [kind |-> "hangs", returncode |-> 0, wrote |-> wrote, output |-> output, stderr |-> <<>>]
\* subprocess.run cannot start it
NoLaunch ==
    [kind |-> "no_launch", returncode |-> 0, wrote |-> FALSE, output |-> <<>>, stderr |-> <<>>]

HarnessKeys ==
    {"test_name", "wordlist_content", "matrix_content", "directions", "expected_output_content"}

\* A record of tests.json, and the behaviour of the script under test on it.
HarnessTest(keys, expected_text, run) ==
    [keys |-> keys, test_name |-> "t", wordlist_content |-> <<"a">>, matrix_content |-> <<"a">>,
     directions |-> <<"a">>, expected_output_content |-> expected_text, run |-> run]

\* One entry of report_lines: the status line and what the content shows.
ReportLine(test, status, content, stderr, shown) ==
    [test |-> test, status |-> status, content |-> content, stderr |-> stderr, shown |-> shown]

\* Lines 191-242 once subprocess.run is over: the entry, whether the output
\* file was read, and whether passed_tests grows.
Classified(entry, read, pass) == [entry |-> entry, read |-> read, pass |-> pass]

\* Mutant: an output that differs still counts as passed.
classify_counts_fail(k, test, p) ==
    IF p.state = "killed"
    THEN Classified(ReportLine(k, "TIMEOUT", "timeout", <<>>, <<>>), FALSE, FALSE)
    ELSE IF p.returncode # 0
    THEN Classified(ReportLine(k, "SCRIPT ERROR", "stderr", p.stderr, <<>>), FALSE, FALSE)
    ELSE IF ~p.wrote
    THEN Classified(ReportLine(k, "ERROR", "python error", <<>>, <<>>), FALSE, FALSE)
    ELSE IF "expected_output_content" \notin test.keys
    THEN Classified(ReportLine(k, "ERROR", "python error", <<>>, <<>>), TRUE, FALSE)
    ELSE IF compare_output(p.output, test.expected_output_content) = "PASS"
    THEN Classified(ReportLine(k, "PASS", "duration", <<>>, <<>>), TRUE, TRUE)
    ELSE Classified(ReportLine(k, "FAIL", "diff", <<>>, lines_of(p.output)), TRUE, TRUE)

\* Mutant: the output file is read before the exit code is looked at.
classify_reads_first(k, test, p) ==
    IF p.state = "killed"
    THEN Classified(ReportLine(k, "TIMEOUT", "timeout", <<>>, lines_of(p.output)), TRUE, FALSE)
    ELSE IF p.returncode # 0
    THEN Classified(ReportLine(k, "SCRIPT ERROR", "stderr", p.stderr, <<>>), TRUE, FALSE)
    ELSE IF ~p.wrote
    THEN Classified(ReportLine(k, "ERROR", "python error", <<>>, <<>>), FALSE, FALSE)
    ELSE IF "expected_output_content" \notin test.keys
    THEN Classified(ReportLine(k, "ERROR", "python error", <<>>, <<>>), TRUE, FALSE)
    ELSE IF compare_output(p.output, test.expected_output_content) = "PASS"
    THEN Classified(ReportLine(k, "PASS", "duration", <<>>, <<>>), TRUE, TRUE)
    ELSE Classified(ReportLine(k, "FAIL", "diff", <<>>, lines_of(p.output)), TRUE, FALSE)

\* lines 191-239 for test number k and the process p that subprocess.run
\* collected (state "exited") or killed on timeout (state "killed")
classify(k, test, p) ==
    IF p.state = "killed"
    THEN Classified(ReportLine(k, "TIMEOUT", "timeout", <<>>, <<>>), FALSE, FALSE)
    ELSE IF p.returncode # 0
    THEN Classified(ReportLine(k, "SCRIPT ERROR", "stderr", p.stderr, <<>>), FALSE, FALSE)
    ELSE IF ~p.wrote
    THEN Classified(ReportLine(k, "ERROR", "python error", <<>>, <<>>), FALSE, FALSE)
    ELSE IF "expected_output_content" \notin test.keys
    THEN Classified(ReportLine(k, "ERROR", "python error", <<>>, <<>>), TRUE, FALSE)
    ELSE IF compare_output(p.output, test.expected_output_content) = "PASS"
    THEN Classified(ReportLine(k, "PASS", "duration", <<>>, <<>>), TRUE, TRUE)
    ELSE Classified(ReportLine(k, "FAIL", "diff", <<>>, lines_of(p.output)), TRUE, FALSE)

\* Section 1 (lines 110-118): the old directory and report go, the directory is made
setup ==
    /\ runner = "harness"
    /\ phase = "idle"
    /\ temp_dir_path' = "present"
    /\ old_report' = FALSE
    /\ phase' = "setup"
    /\ UNCHANGED <<runner, archive, file, tests, cause, pos, passed, failed, failures, result,
                   sys_stdout, sys_stdin, before, report, history, zip_file, proc, launched,
                   reads, report_lines, cmp_vars, stub_vars, lines_vars, host_vars>>

\* Section 2 (lines 120-139): `return` when the archive or the script is missing
unzip ==
    /\ runner = "harness"
    /\ phase = "setup"
    /\ IF zip_file = "missing"
       THEN phase' = "exited" /\ cause' = "ZipMissing" /\ exit_status' = Prompted
       ELSE IF "wordsearch.py" \notin archive
       THEN phase' = "exited" /\ cause' = "UnzipError" /\ exit_status' = Prompted
       ELSE phase' = "unzipped" /\ UNCHANGED <<cause, exit_status>>
    /\ UNCHANGED <<runner, archive, file, tests, pos, passed, failed, failures, result,
                   sys_stdout, sys_stdin, before, report, history, harness_vars, cmp_vars,
                   stub_vars, lines_vars, sys_modules, steps, stdin_eof>>

\* Section 3 (lines 141-158): `return` when tests.json cannot be loaded
load_tests ==
    /\ runner = "harness"
    /\ phase = "unzipped"
    /\ IF file.readable
       THEN tests' = file.tests /\ phase' = "running" /\ UNCHANGED <<cause, exit_status>>
       ELSE /\ phase' = "exited" /\ cause' = "SpecLoadError" /\ exit_status' = Prompted
            /\ UNCHANGED tests
    /\ UNCHANGED <<runner, archive, file, pos, passed, failed, failures, result,
                   sys_stdout, sys_stdin, before, report, history, harness_vars, cmp_vars,
                   stub_vars, lines_vars, sys_modules, steps, stdin_eof>>

\* Lines 160-190 of an iteration: up to the start of the external process.
\* test["test_name"] is read outside the try block; an error inside it
\* before the process runs ends the iteration with status ERROR.
start_test ==
    /\ runner = "harness"
    /\ phase = "running"
    /\ pos < Len(tests)
    /\ proc.state = "none"
    /\ \E test \in {tests[pos + 1]} :
          IF "test_name" \notin test.keys
          THEN /\ phase' = "exited"
               /\ cause' = "KeyError"
               /\ exit_status' = 1
               /\ UNCHANGED <<pos, proc, launched, report_lines>>
          ELSE IF \/ {"wordlist_content", "matrix_content", "directions"} \ test.keys # {}
                  \/ test.run.kind = "no_launch"
          THEN /\ report_lines' = Append(report_lines,
                       ReportLine(pos + 1, "ERROR", "python error", <<>>, <<>>))
               /\ pos' = pos + 1
               /\ UNCHANGED <<phase, cause, proc, launched, exit_status>>
          ELSE /\ proc' = [state |-> "running", returncode |-> 0, stderr |-> <<>>,
                           wrote |-> FALSE, output |-> <<>>]
               /\ launched' = Append(launched, pos + 1)
               /\ UNCHANGED <<phase, cause, pos, report_lines, exit_status>>
    /\ UNCHANGED <<runner, archive, file, tests, passed, failed, failures, result, sys_stdout,
                   sys_stdin, before, report, history, zip_file, temp_dir_path, old_report,
                   reads, cmp_vars, stub_vars, lines_vars, sys_modules, steps, stdin_eof>>

\* subprocess.run: the process ends within TIMEOUT_SECONDS
process_exits ==
    /\ runner = "harness"
    /\ proc.state = "running"
    /\ tests[pos + 1].run.kind = "exits"
    /\ proc' = [state |-> "exited", returncode |-> tests[pos + 1].run.returncode,
                stderr |-> tests[pos + 1].run.stderr, wrote |-> tests[pos + 1].run.wrote,
                output |-> tests[pos + 1].run.output]
    /\ UNCHANGED <<run_vars, zip_file, temp_dir_path, old_report, launched, reads,
                   report_lines, cmp_vars, stub_vars, lines_vars, host_vars>>

\* subprocess.run: the timer fires first; run() kills the process, waits for
\* it and raises TimeoutExpired
timeout_expires ==
    /\ runner = "harness"
    /\ proc.state = "running"
    /\ tests[pos + 1].run.kind = "hangs"
    /\ proc' = [state |-> "killed", returncode |-> 0, stderr |-> <<>>,
                wrote |-> tests[pos + 1].run.wrote, output |-> tests[pos + 1].run.output]
    /\ UNCHANGED <<run_vars, zip_file, temp_dir_path, old_report, launched, reads,
                   report_lines, cmp_vars, stub_vars, lines_vars, host_vars>>

\* Lines 191-242: the rest of the iteration
record_result ==
    /\ runner = "harness"
    /\ proc.state \in {"exited", "killed"}
    /\ \E c \in {classify(pos + 1, tests[pos + 1], proc)} :
          /\ report_lines' = Append(report_lines, c.entry)
          /\ reads' = IF c.read THEN Append(reads, pos + 1) ELSE reads
          /\ passed' = IF c.pass THEN passed + 1 ELSE passed
    /\ pos' = pos + 1
    /\ proc' = NoProcess
    /\ UNCHANGED <<runner, archive, file, tests, phase, cause, failed, failures, result,
                   sys_stdout, sys_stdin, before, report, history, zip_file, temp_dir_path,
                   old_report, launched, cmp_vars, stub_vars, lines_vars, host_vars>>

\* write_report (lines 91-100), called on line 245
write_report ==
    /\ runner = "harness"
    /\ phase = "running"
    /\ pos = Len(tests)
    /\ report' = [writes |-> report.writes + 1, passed |-> passed, total |-> Len(tests),
                  lines |-> report_lines]
    /\ phase' = "reported"
    /\ UNCHANGED <<runner, archive, file, tests, cause, pos, passed, failed, failures, result,
                   sys_stdout, sys_stdin, before, history, harness_vars, cmp_vars, stub_vars,
                   lines_vars, host_vars>>

\* shutil.rmtree(TEMP_DIR_PATH) (lines 246-247)
cleanup ==
    /\ runner = "harness"
    /\ phase = "reported"
    /\ temp_dir_path' = "absent"
    /\ phase' = "cleaned"
    /\ UNCHANGED <<runner, archive, file, tests, cause, pos, passed, failed, failures, result,
                   sys_stdout, sys_stdin, before, report, history, zip_file, old_report, proc,
                   launched, reads, report_lines, cmp_vars, stub_vars, lines_vars, host_vars>>

\* Section 6 (lines 249-259): the crown or the summary, then input()
final_output ==
    /\ runner = "harness"
    /\ phase = "cleaned"
    /\ phase' = "done"
    /\ exit_status' = Prompted
    /\ UNCHANGED <<runner, archive, file, tests, cause, pos, passed, failed, failures, result,
                   sys_stdout, sys_stdin, before, report, history, harness_vars, cmp_vars,
                   stub_vars, lines_vars, sys_modules, steps, stdin_eof>>

NextHarness ==
    \/ setup
    \/ unzip
    \/ load_tests
    \/ start_test
    \/ process_exits
    \/ timeout_expires
    \/ record_result
    \/ write_report
    \/ cleanup
    \/ final_output

\* The specs of the harness sessions.
HarnessTests ==
    {HarnessTest(HarnessKeys, <<"a", NL, "b">>, Exit(0, TRUE, <<"b", NL, "a", NL>>, <<>>)),
     HarnessTest(HarnessKeys, <<"a", NL, "a">>, Exit(0, TRUE, <<"a">>, <<>>)),
     HarnessTest(HarnessKeys, <<"a">>, Exit(1, TRUE, <<"a">>, <<"x">>)),
     HarnessTest(HarnessKeys, <<"a">>, Hang(TRUE, <<"a">>)),
     HarnessTest(HarnessKeys, <<"a">>, Exit(0, FALSE, <<>>, <<>>)),
     HarnessTest(HarnessKeys \ {"wordlist_content"}, <<"a">>, Exit(0, TRUE, <<"a">>, <<>>)),
     HarnessTest(HarnessKeys \ {"test_name"}, <<"a">>, Exit(0, TRUE, <<"a">>, <<>>)),
     HarnessTest(HarnessKeys \ {"expected_output_content"}, <<>>, Exit(0, TRUE, <<"a">>, <<>>)),
     HarnessTest(HarnessKeys, <<"a">>, NoLaunch)}

\* main() is entered: nothing is loaded, no process runs, the directory and
\* the report of an earlier run may still be there.
InitHarness ==
    /\ CmpIdle /\ StubIdle /\ LinesIdle
    /\ runner = "harness"
    /\ tests = <<>>
    /\ phase = "idle"
    /\ cause = ""
    /\ pos = 0
    /\ passed = 0
    /\ failed = 0
    /\ failures = <<>>
    /\ result = NoResult
    /\ sys_stdout = Console
    /\ sys_stdin = Keyboard
    /\ before = [stdout |-> Console, stdin |-> Keyboard]
    /\ report = NoReport
    /\ history = <<>>
    /\ proc = NoProcess
    /\ launched = <<>>
    /\ reads = <<>>
    /\ report_lines = <<>>
    /\ sys_modules = NoModules
    /\ steps = <<>>
    /\ stdin_eof \in BOOLEAN
    /\ exit_status = -1
    /\ \/ temp_dir_path = "absent" /\ old_report = FALSE
       \/ temp_dir_path = "present" /\ old_report = TRUE
    /\ \/ /\ zip_file = "present"
          /\ archive = {"wordsearch.py"}
          /\ file \in {[readable |-> FALSE, tests |-> <<>>]}
                      \cup {[readable |-> TRUE, tests |-> l] :
                                l \in SeqsUpTo(HarnessTests, MaxTests)}
       \/ /\ zip_file \in {"present", "missing"}
          /\ archive = {}
          /\ file = [readable |-> TRUE, tests |-> <<>>]

SpecHarness == InitHarness /\ [][NextHarness]_vars

(***************************************************************************)
(* Claims about the out-of-process harness                                 *)
(***************************************************************************)
\* the external process of a test is started
Launchable(test) ==
    /\ {"wordlist_content", "matrix_content", "directions"} \subseteq test.keys
    /\ test.run.kind # "no_launch"

\* the one status the statement gives a test
StatusOf(test) ==
    IF ~Launchable(test) THEN "ERROR"
    ELSE IF test.run.kind = "hangs" THEN "TIMEOUT"
    ELSE IF test.run.returncode # 0 THEN "SCRIPT ERROR"
    ELSE IF ~test.run.wrote \/ "expected_output_content" \notin test.keys THEN "ERROR"
    ELSE IF lines_of(test.run.output) = lines_of(test.expected_output_content) THEN "PASS"
    ELSE "FAIL"

WasRead(i) == \E n \in 1..Len(reads) : reads[n] = i

\* C13: every processed test of a harness session has exactly one status:
\* TIMEOUT when its process outlived the limit, SCRIPT ERROR when it ended
\* with a non-zero exit code (stderr attached, output file not read), PASS
\* or FAIL when it ended with exit code 0 and the output file was read and
\* compared, ERROR for any other failure inside the harness; passed_tests
\* counts exactly the PASS entries.
C13_Classification ==
    runner = "harness" =>
        /\ \A i \in 1..Len(report_lines) :
              /\ report_lines[i].test = i
              /\ report_lines[i].status = StatusOf(tests[i])
              /\ report_lines[i].status = "SCRIPT ERROR" =>
                    report_lines[i].stderr = tests[i].run.stderr /\ ~WasRead(i)
              /\ report_lines[i].status \in {"PASS", "FAIL"} =>
                    WasRead(i) /\ tests[i].run.returncode = 0
        /\ passed = Cardinality({i \in 1..Len(report_lines) : report_lines[i].status = "PASS"})

C13_Witness ==
    /\ runner = "harness"
    /\ Len(report_lines) = 3
    /\ report_lines[1].status = "SCRIPT ERROR"
    /\ report_lines[2].status = "PASS"
    /\ report_lines[3].status = "FAIL"
    /\ passed = 1
    /\ reads = <<2, 3>>

\* this step appends one entry to report_lines
Recorded == Len(report_lines') = Len(report_lines) + 1

\* C14: a process that is still running when the timer fires is killed
\* before its test is recorded; the test is then recorded as TIMEOUT with the
\* timeout text and no output, its output file is not read, passed_tests does
\* not grow and the session stays in its loop with the next test due.  No
\* test is recorded as TIMEOUT in any other way.
C14_Timeout ==
    [][/\ (proc.state = "killed" /\ proc' # proc) =>
              /\ Recorded
              /\ report_lines'[Len(report_lines')].status = "TIMEOUT"
              /\ report_lines'[Len(report_lines')].content = "timeout"
              /\ report_lines'[Len(report_lines')].shown = <<>>
              /\ reads' = reads
              /\ passed' = passed
              /\ proc'.state = "none"
              /\ pos' = pos + 1
              /\ phase' = "running"
       /\ (Recorded /\ report_lines'[Len(report_lines')].status = "TIMEOUT") =>
              proc.state = "killed"
       /\ (proc.state = "running" /\ tests[pos + 1].run.kind = "hangs") =>
              proc'.state = "killed"]_vars

C14_Witness ==
    /\ runner = "harness"
    /\ Len(report_lines) = 2
    /\ report_lines[1].status = "TIMEOUT"
    /\ tests[1].run.wrote
    /\ ~WasRead(1)
    /\ report_lines[2].status = "PASS"
    /\ proc.state = "none"

(***************************************************************************)
(* Sessions of all three runners                                           *)
(***************************************************************************)
InitRuns == InitSession \/ InitHarness

NextRuns == NextSession \/ NextHarness

SpecRuns == InitRuns /\ [][NextRuns]_vars

\* the reasons for which a session ends before its specs are loaded
LoadErrors == {"SpecLoadError", "ZipMissing", "UnzipError"}

\* the session is over: main() or the process has ended
SessionOver == phase \in {"done", "exited"}

\* C15 (as stated): the report is written at most once and only when every
\* loaded spec has been processed, and a session whose specs were loaded
\* does not end without its report.  In the code a session that has loaded
\* its specs can end inside the loop (SystemExit out of run_single_test, the
\* KeyError of a record without test_name), and then no report is written.
C15_ReportOnce ==
    /\ report.writes <= 1
    /\ report.writes = 1 => (pos = Len(tests) /\ phase \in {"reported", "cleaned", "done"})
    /\ (SessionOver /\ cause \notin LoadErrors) => report.writes = 1

\* the test file cannot be read, or one of its records has no test_name
Malformed ==
    \/ ~file.readable
    \/ \E i \in 1..Len(file.tests) : "test_name" \notin file.tests[i].keys

\* C16 (as stated): with a malformed test file no spec is ever executed and
\* the counters stay 0.  The battleship runner looks for test_name only when
\* it reaches the record, so the specs before it are executed and counted.
C16_FatalLoad ==
    (runner = "battleship" /\ Malformed) =>
        pos = 0 /\ passed = 0 /\ failed = 0 /\ history = <<>>

IsPrefix(s, t) == Len(s) <= Len(t) /\ \A i \in 1..Len(s) : s[i] = t[i]

\* the results of the executed specs that did not pass, in run order
NotPassed(h) == SelectSeq([i \in 1..Len(h) |-> h[i].result], LAMBDA r : ~r.passed)

\* C17: in every runner the specs are taken one at a time in file order and
\* each is executed once: the log of executions and the report entries grow
\* by one entry per processed spec and are never rewritten, entry i belongs
\* to spec i, an external process is started at most once per spec and only
\* for the spec that is due, and the recorded failures are the executions
\* that did not pass, in run order.
C17_OrderNoRetry ==
    /\ [](/\ runner \in {"function", "battleship"} =>
                /\ Len(history) = pos
                /\ failures = NotPassed(history)
                /\ \A i \in 1..Len(history) :
                      history[i].result.expected_output
                          = Get(tests[i], "expected_output",
                                IF runner = "function" THEN ExpStr(<<>>) ELSE <<>>)
          /\ runner = "harness" =>
                /\ Len(report_lines) = pos
                /\ \A i \in 1..Len(report_lines) : report_lines[i].test = i
                /\ \A n \in 1..Len(launched) :
                      /\ launched[n] <= pos + 1
                      /\ \A m \in 1..(n - 1) : launched[m] < launched[n]
                /\ proc.state # "none" => launched[Len(launched)] = pos + 1)
    /\ [][/\ pos' \in {pos, pos + 1}
          /\ IsPrefix(history, history')
          /\ IsPrefix(report_lines, report_lines')
          /\ Len(history') + Len(report_lines') = Len(history) + Len(report_lines) + (pos' - pos)
          /\ IsPrefix(failures, failures')
          /\ IsPrefix(launched, launched')]_vars

C17_Witness ==
    /\ runner = "battleship"
    /\ pos = 3
    /\ ~history[1].result.passed /\ history[2].result.passed /\ ~history[3].result.passed
    /\ history[1].result # history[3].result
    /\ failures = <<history[1].result, history[3].result>>

\* C18: after k specs have been processed passed + failed = k, failures has
\* `failed` entries, which are the results of the specs that did not pass in
\* run order; when the report is written passed + failed is the number of
\* loaded specs.  In the harness passed_tests never exceeds the number of
\* processed specs, and the report has one entry per loaded spec.
C18_Aggregation ==
    /\ runner \in {"function", "battleship"} =>
          /\ passed + failed = pos
          /\ Len(failures) = failed
          /\ failures = NotPassed(history)
          /\ passed = Cardinality({i \in 1..Len(history) : history[i].result.passed})
          /\ report.writes = 1 => passed + failed = Len(tests)
    /\ runner = "harness" =>
          /\ passed <= pos /\ pos <= Len(tests)
          /\ Len(report_lines) = pos
          /\ report.writes = 1 =>
                /\ report.total = Len(tests)
                /\ Len(report.lines) = report.total
                /\ report.passed = passed
                /\ report.passed <= report.total

C18_Witness ==
    /\ runner = "function"
    /\ phase = "reported"
    /\ passed = 1 /\ failed = 2
    /\ Len(tests) = 3
    /\ history[2].result.passed

\* C19: the failure report of the function and battleship runners holds the
\* no-failures sentence exactly when no executed test failed; otherwise it
\* holds one block per failed test, in run order; in both cases the number
\* after "Total Failures:" is the number of blocks.
C19_ReportConsistency ==
    (runner \in {"function", "battleship"} /\ report.writes > 0) =>
        /\ report.no_failures <=> (\A i \in 1..Len(history) : history[i].result.passed)
        /\ report.no_failures => report.blocks = <<>>
        /\ Len(report.blocks) = Len(NotPassed(history))
        /\ \A i \in 1..Len(report.blocks) :
              report.blocks[i] = NotPassed(history)[i].test_name
        /\ report.total_failures = Len(report.blocks)

C19_Witness ==
    /\ runner = "battleship"
    /\ report.writes = 1
    /\ ~report.no_failures
    /\ report.total_failures = 2
    /\ Len(report.blocks) = 2
    /\ passed = 1

\* C20 (as stated): when a harness session is over, however it ended, the
\* temporary directory it made is gone.  main() removes the directory only
\* on line 247; the three `return`s of sections 2 and 3 and an error that
\* leaves the loop come after the directory was made on line 114.
C20_TempCleanup ==
    (runner = "harness" /\ SessionOver) => temp_dir_path = "absent"

(***************************************************************************)
(* Claims about loading the target                                         *)
(***************************************************************************)
\* the steps of the latest run_single_test that use the submission module
TargetSteps == {i \in 1..Len(steps) : steps[i].ev \in {"resolve", "invoke"}}

\* C21 (as stated): whenever a callable is resolved or called, its module
\* object was made by a load during the same test, and no earlier test has
\* run in that object.  import_function of tests.py calls
\* importlib.import_module, which hands back the object cached in
\* sys.modules by the first test that named the module.
C21_FreshLoad ==
    \A i \in TargetSteps : steps[i].loaded_by = steps[i].test /\ steps[i].stale = <<>>

\* the part of C21 the battleship runner keeps
C21_BattleshipFresh == runner = "battleship" => C21_FreshLoad

(***************************************************************************)
(* Claims about the end of the process                                     *)
(***************************************************************************)
\* C22 (as stated): a process that has written its report ends with exit
\* status 0, however many tests failed.  Every runner ends with input(...)
\* after the report and the summary; with the standard input at end of
\* file that call raises EOFError and the status is 1.
C22_ExitStatus == (SessionOver /\ report.writes > 0) => exit_status = 0

\* the part of C22 that holds: with a line to read the status is 0 whatever
\* the tests did, and the counters never reach the status
C22_FailuresNotPropagated ==
    (SessionOver /\ report.writes > 0) => exit_status = (IF stdin_eof THEN 1 ELSE 0)

\* the session takes no further step: the process has ended, or it waits
\* for a call that does not come back
AtRest == phase \in {"done", "exited", "blocked"}

\* C23 (as stated): no operation but the wait for the external process
\* blocks for good, and a session that started running tests comes to rest
\* only in Done, with its report written.  The in-process runners call the
\* target without a time limit (tests.py line 102, main_tester.py line 122),
\* so a target that never returns holds the session in its loop for good;
\* and a session leaves its loop without a report when SystemExit or the
\* KeyError of a record without test_name escapes run_single_test (C1).
C23_Progress ==
    (AtRest /\ cause \notin LoadErrors) => (phase = "done" /\ report.writes = 1)

\* the part of C23 about the external process: it is never waited for
\* beyond the time limit, and a harness session comes to rest only once the
\* process of the current test is collected or killed
C23_ProcessBounded ==
    runner = "harness" => (phase # "blocked" /\ (AtRest => proc.state = "none"))

\* the steps of the latest run_single_test that execute or use battleship
BattleshipSteps ==
    {i \in 1..Len(steps) :
        steps[i].module = "battleship" /\ steps[i].ev \in {"load", "resolve", "invoke"}}

StepsBefore(i, ev) == {n \in 1..(i - 1) : steps[n].ev = ev}

\* C24: in a battleship session the steps of every test come in this order:
\* 'helper' is bound to the stub, the stub is configured from the spec
\* (board size, queues, cursors at 0), a cached battleship is discarded, and
\* then battleship is loaded; whenever battleship is loaded, resolved or
\* called, 'helper' is bound to the stub and the stub is configured for the
\* spec that is run.
C24_SubstitutionOrder ==
    runner = "battleship" =>
        \A i \in 1..Len(steps) :
            /\ i \in BattleshipSteps =>
                  /\ steps[i].helper = "test_helper"
                  /\ ConfiguredFor(steps[i].stub, tests[steps[i].test])
                  /\ steps[i].stub.NUM_ROWS = tests[steps[i].test].rows
                  /\ steps[i].stub.NUM_COLUMNS = tests[steps[i].test].columns
                  /\ steps[i].stub.SHIP_SIZES = tests[steps[i].test].ship_sizes
                  /\ StepsBefore(i, "configure") # {}
                  /\ steps[i].ev # "load" => StepsBefore(i, "load") # {}
                  /\ steps[i].loaded_by = steps[i].test
            /\ steps[i].ev = "configure" =>
                  StepsBefore(i, "bind") # {} /\ StepsBefore(i, "discard") = {}
            /\ steps[i].ev = "discard" =>
                  /\ StepsBefore(i, "configure") # {}
                  /\ \A n \in 1..(i - 1) : steps[n].module # "battleship"
            /\ (steps[i].ev = "bind" /\ i > 1) =>
                  (i = 2 /\ steps[1].ev = "load" /\ steps[1].module = "test_helper")

\* C24 witness: a second test; the battleship of the first one is discarded
\* after the stub is bound and configured, and a fresh one loaded and called.
C24_Witness ==
    /\ runner = "battleship"
    /\ pos = 2
    /\ Len(steps) = 6
    /\ steps[1].ev = "bind" /\ steps[2].ev = "configure" /\ steps[3].ev = "discard"
    /\ steps[4].ev = "load" /\ steps[5].ev = "resolve" /\ steps[6].ev = "invoke"
    /\ steps[6].stub.INPUT_QUEUE # <<>>
    /\ steps[3].loaded_by = 1 /\ steps[4].loaded_by = 2

(***************************************************************************)
(* Claims about what the stub writes and returns                           *)
(***************************************************************************)
\* the scripted input has an unread entry
Unread == th._input_index < Len(th.INPUT_QUEUE)

\* C25 (as stated): with an unread entry get_input(msg) writes exactly msg,
\* returns the entry and advances the cursor by one; on an exhausted queue
\* it writes msg and a newline, returns "" and leaves the cursor.  The code
\* also echoes the entry it returns, with a newline (lines 40-42).
C25_SinkEffect ==
    [][last'.op = "get_input" =>
          IF Unread
          THEN /\ printed' = last'.arg
               /\ last'.ret = RetStr(th.INPUT_QUEUE[th._input_index + 1])
               /\ th' = [th EXCEPT !._input_index = @ + 1]
          ELSE /\ printed' = last'.arg \o <<NL>>
               /\ last'.ret = RetStr(<<>>)
               /\ th' = th]_vars

\* C25 amended: with an unread entry get_input(msg) writes msg, then the
\* entry and a newline, returns the entry and advances the cursor by one;
\* on an exhausted queue it writes msg and a newline, returns "" and leaves
\* the cursor.
C25_SinkEffectEcho ==
    [][last'.op = "get_input" =>
          IF Unread
          THEN /\ printed' = last'.arg \o th.INPUT_QUEUE[th._input_index + 1] \o <<NL>>
               /\ last'.ret = RetStr(th.INPUT_QUEUE[th._input_index + 1])
               /\ last'.raised = ""
               /\ th' = [th EXCEPT !._input_index = @ + 1]
          ELSE /\ printed' = last'.arg \o <<NL>>
               /\ last'.ret = RetStr(<<>>)
               /\ last'.raised = ""
               /\ th' = th]_vars

\* C25 witness: the second entry was read, prompt and echo were written.
C25_Witness ==
    /\ last.op = "get_input"
    /\ th._input_index = 2
    /\ last.ret = RetStr(<<"b">>)
    /\ printed = <<"?", "b", NL>>

(***************************************************************************)
(* Claims about the diff that a FAIL puts in the report                    *)
(***************************************************************************)
LinesABC == <<<<"a">>, <<"b">>, <<"c">>>>
LinesAXC == <<<<"a">>, <<"x">>, <<"c">>>>
LinesACX == <<<<"a">>, <<"c">>, <<"x">>>>
LinesABX == <<<<"a">>, <<"b">>, <<"x">>>>

Tags(d) == [n \in 1..Len(d.opcodes) |-> d.opcodes[n].tag]
Row(marked, from, to) == [marked |-> marked, from |-> from, to |-> to]

RECURSIVE Side(_, _)
\* the lines that the rows show on one side, top to bottom
Side(rows, from) ==
    IF rows = <<>> THEN <<>>
    ELSE (IF from THEN rows[1].from ELSE rows[1].to) \o Side(Tail(rows), from)

\* the files hold the lines a, b, c (expected) and a, x, c (actual)
Scenario ==
    /\ given_lines(expected_content) = LinesABC
    /\ given_lines(actual_content) = LinesAXC

\* C26 (as stated): the diff of a FAIL is computed over the two line lists
\* in their given order; for expected a, b, c and actual a, x, c the opcodes
\* are equal, replace, equal and only the b/x row is marked.  The code
\* sorts both lists before it hands them to make_table (lines 206-218).
C26_DiffAlignment ==
    html_diff.made =>
        /\ html_diff.fromlines = given_lines(expected_content)
        /\ html_diff.tolines = given_lines(actual_content)
        /\ Scenario =>
              /\ Tags(html_diff) = <<"equal", "replace", "equal">>
              /\ html_diff.rows = <<Row(FALSE, <<<<"a">>>>, <<<<"a">>>>),
                                    Row(TRUE, <<<<"b">>>>, <<<<"x">>>>),
                                    Row(FALSE, <<<<"c">>>>, <<<<"c">>>>)>>

\* C26 amended: a diff is made exactly on FAIL, over the sorted expected
\* lines and the sorted actual lines.  Its rows show every line of either
\* list once and in order, an unmarked row shows the same lines on both
\* sides, and a marked row shows no line that is on both of its sides.  For
\* the sorted lists a, b, x and a, c, x the opcodes are equal, replace,
\* equal and only the b/c row is marked; for expected a, b, c and actual
\* a, x, c the lists aligned are a, b, c and a, c, x, and the opcodes are
\* equal, delete, equal, insert with the rows of b and of x marked.
C26_DiffOfSorted ==
    compared # "" =>
        /\ html_diff.made <=> compared = "FAIL"
        /\ html_diff.made =>
              /\ html_diff.fromlines = sorted(given_lines(expected_content))
              /\ html_diff.tolines = sorted(given_lines(actual_content))
              /\ Side(html_diff.rows, TRUE) = html_diff.fromlines
              /\ Side(html_diff.rows, FALSE) = html_diff.tolines
              /\ \A n \in 1..Len(html_diff.rows) :
                    /\ html_diff.rows[n].marked <=> html_diff.opcodes[n].tag # "equal"
                    /\ ~html_diff.rows[n].marked =>
                          /\ html_diff.rows[n].from = html_diff.rows[n].to
                          /\ html_diff.rows[n].from # <<>>
                    /\ html_diff.rows[n].marked =>
                          /\ \A i \in 1..Len(html_diff.rows[n].from) :
                                \A j \in 1..Len(html_diff.rows[n].to) :
                                    html_diff.rows[n].from[i] # html_diff.rows[n].to[j]
                          /\ html_diff.opcodes[n].tag = "replace" <=>
                                (html_diff.rows[n].from # <<>> /\ html_diff.rows[n].to # <<>>)
                          /\ html_diff.opcodes[n].tag = "delete" <=> html_diff.rows[n].to = <<>>
                          /\ html_diff.opcodes[n].tag = "insert" <=> html_diff.rows[n].from = <<>>
              /\ (html_diff.fromlines = LinesABX /\ html_diff.tolines = LinesACX) =>
                    /\ Tags(html_diff) = <<"equal", "replace", "equal">>
                    /\ html_diff.rows = <<Row(FALSE, <<<<"a">>>>, <<<<"a">>>>),
                                          Row(TRUE, <<<<"b">>>>, <<<<"c">>>>),
                                          Row(FALSE, <<<<"x">>>>, <<<<"x">>>>)>>
              /\ Scenario =>
                    /\ html_diff.fromlines = LinesABC
                    /\ html_diff.tolines = LinesACX
                    /\ Tags(html_diff) = <<"equal", "delete", "equal", "insert">>
                    /\ html_diff.rows = <<Row(FALSE, <<<<"a">>>>, <<<<"a">>>>),
                                          Row(TRUE, <<<<"b">>>>, <<>>),
                                          Row(FALSE, <<<<"c">>>>, <<<<"c">>>>),
                                          Row(TRUE, <<>>, <<<<"x">>>>)>>

\* C26 witness: the files of the scenario were compared and the diff made.
C26_Witness ==
    /\ Scenario
    /\ compared = "FAIL"
    /\ html_diff.made
    /\ Len(html_diff.opcodes) = 4

(***************************************************************************)
(* Claims about the result of a single test                                *)
(***************************************************************************)
Members(alts) == {alts[i] : i \in 1..Len(alts)}

\* the single function test ran up to the comparison of its output with a
\* list of acceptable outputs
ListCompared ==
    /\ runner = "function" /\ pos = 1
    /\ ExpectedText.t = "list"
    /\ TheTest.module \in archive
    /\ TheTest.function.kind = "returns"
    /\ Get(TheTest, "input_text", InNone).t \in {"None", "str", "list"}
    /\ compare_values(TheTest.function.ret, Get(TheTest, "expected_return", PyNone))

\* C27: when expected_output is a list of strings the test passes exactly
\* when the trimmed output equals the trimmed form of some member; a list
\* with the same members in any order, or with members repeated, gives the
\* same verdict; an empty list matches no output ("Output mismatch").
C27_AcceptableOutputs ==
    ListCompared =>
        /\ result.passed <=>
              \E e \in Members(ExpectedText.alts) :
                  SameTrimmed(TheTest.function.out, e)
        /\ \A a \in SeqsUpTo(AltStrings, MaxAlts) :
              Members(a) = Members(ExpectedText.alts) =>
                  output_matches(TheTest.function.out, ExpList(a)) = result.passed
        /\ ~result.passed <=> result.error = "Output mismatch"
        /\ ExpectedText.alts = <<>> => ~result.passed

\* C27 witness: only the first of two members matches, and only once both
\* texts are trimmed.
C27_Witness ==
    /\ ListCompared
    /\ ExpectedText.alts = <<<<"h", NL>>, <<"H">>>>
    /\ TheTest.function.out = <<"h">>
    /\ result.passed

\* the i-th test of a function session returned, and neither its return
\* value nor its output is the expected one
BothMismatch(i) ==
    /\ runner = "function"
    /\ tests[i].module \in archive
    /\ tests[i].function.kind = "returns"
    /\ Get(tests[i], "input_text", InNone).t \in {"None", "str", "list"}
    /\ ~compare_values(tests[i].function.ret, Get(tests[i], "expected_return", PyNone))
    /\ Get(tests[i], "expected_output", ExpStr(<<>>)).t = "str"
    /\ ~SameTrimmed(tests[i].function.out, Get(tests[i], "expected_output", ExpStr(<<>>)).s)

\* C28: in every result that run_single_test returned, in both runners,
\* passed is true exactly when error is None; a result with a traceback has
\* passed false and an error kind that starts with "Exception"; when both
\* the return value and the output mismatch, the kind that is recorded is
\* the return value mismatch.
C28_WellFormedResult ==
    \A i \in 1..Len(history) :
        /\ history[i].result.passed <=> history[i].result.error = "None"
        /\ history[i].result.traceback =>
              /\ ~history[i].result.passed
              /\ history[i].result.error \in {"Exception", "Exception: ..."}
        /\ history[i].result.error \in {"Exception", "Exception: ..."} =>
              history[i].result.traceback
        /\ BothMismatch(i) => history[i].result.error = "Return value mismatch"

\* C28 witness: a function session returned a result with a traceback and
\* then one where both the return value and the output mismatch.
C28_Witness ==
    /\ Len(history) >= 2
    /\ history[1].result.traceback
    /\ BothMismatch(2)
    /\ history[2].result.error = "Return value mismatch"

\* the target of the i-th test was called, printed something and raised
RaisedAfterOutput(i) ==
    /\ tests[i].function.kind = "raises"
    /\ IF runner = "function"
       THEN /\ tests[i].module \in archive
            /\ Get(tests[i], "input_text", InNone).t \in {"None", "str", "list"}
            /\ tests[i].function.out # <<>>
       ELSE /\ history[i].start.called
            /\ Execute(tests[i].function.script, 1,
                       Outcome(history[i].start.th, <<>>, RetNone, "")).out # <<>>

\* C29: when the target raises after it printed something, the result keeps
\* the actual_output it was built with (None in the function runner, the
\* empty string in the battleship runner) and, in the function runner,
\* actual_return None; the result is a failure with a traceback, and its
\* block of the report shows no actual output.
C29_OutputLost ==
    \A i \in 1..Len(history) :
        RaisedAfterOutput(i) =>
            /\ history[i].result.actual_output =
                  (IF runner = "function" THEN TextNone ELSE <<>>)
            /\ runner = "function" => history[i].result.actual_return = PyNone
            /\ ~history[i].result.passed
            /\ history[i].result.traceback
            /\ \E n \in 1..Len(failures) : failures[n] = history[i].result
            /\ ~format_failure_report(history[i].result).shows_output
            /\ format_failure_report(history[i].result).actual_output = TextNone

\* C29 witness: the report of a function session was written after a target
\* that printed "H" and raised.
C29_Witness ==
    /\ runner = "function"
    /\ report.writes = 1
    /\ \E i \in 1..Len(history) :
          /\ RaisedAfterOutput(i)
          /\ tests[i].function.out = <<"H">>
          /\ history[i].result.actual_output = TextNone
          /\ history[i].result.error = "Exception: ..."

(***************************************************************************)
(* Claims about the scripted choices and the candidates                    *)
(***************************************************************************)
BypassStep(op, queue, index) ==
    last'.op = op =>
        IF th[index] < Len(th[queue])
        THEN /\ last'.ret = RetCell(th[queue][th[index] + 1])
             /\ last'.raised = ""
        ELSE IF last'.arg = <<>>
        THEN /\ last'.raised = "IndexError"
             /\ last'.ret = RetNone
             /\ th' = th
        ELSE /\ last'.ret = RetCell(last'.arg[1])
             /\ last'.raised = ""

\* C30: while its scripted sequence has unread entries, choose_ship_location
\* and choose_torpedo_target return the scripted entry whatever candidates
\* they are given, an empty list included; the candidates are read only on
\* fallback, where an empty list makes the call fail (IndexError) and any
\* other list gives its first cell.
C30_ScriptedBypass ==
    [][/\ BypassStep("choose_ship_location", "SHIP_PLACEMENTS", "_ship_index")
       /\ BypassStep("choose_torpedo_target", "TORPEDO_SEQUENCE", "_torpedo_index")]_vars

\* C30 witness: a scripted ship cell was returned to a call that offered no
\* candidates at all.
C30_Witness ==
    /\ last.op = "choose_ship_location"
    /\ last.arg = <<>>
    /\ last.raised = ""
    /\ th._ship_index = 1
    /\ last.ret = RetCell(th.SHIP_PLACEMENTS[1])

====
